---------------------------- MODULE Spec2Model ----------------------------
(***************************************************************************)
(* Workflow catalog (workflow-catalog/app): the catalog store of           *)
(* app/database.py (SQLite table `workflows`, FTS5 index `workflows_fts`   *)
(* and its triggers), as driven by app/main.py and the scripts.            *)
(*                                                                         *)
(* Text is modelled as a sequence of one-character strings, so that JSON   *)
(* encoding, LIKE matching, tokenising and collation are computed and not  *)
(* assumed.  Python None / SQL NULL is the value Null.                     *)
(***************************************************************************)
EXTENDS Integers, Sequences, FiniteSets, TLC

VARIABLES
    schema,         \* TRUE once init_db has created tables, FTS table and triggers
    workflows,      \* table workflows: sequence of rows, workflows[i] has rowid i
    workflows_fts,  \* FTS5 index: rowid -> the five indexed column values
    clock,          \* the instant datetime.utcnow() would return
    ret             \* the call in flight and what it returned (Idle: none)

vars == <<schema, workflows, workflows_fts, clock, ret>>

-----------------------------------------------------------------------------
(* Bounds of the model *)

MaxRows == 3        \* inserts are explored until the table holds MaxRows rows

MaxClock == 2       \* stat updates are explored until the clock reads MaxClock

-----------------------------------------------------------------------------
(* Text *)

Null == <<"<null>">>

NoInt == -1         \* an int argument that was not given (None)

Quote == "\""

Backslash == "\\"

Lowercase == <<"a", "b", "c", "d", "e", "f", "g", "h", "i", "j", "k", "l", "m",
               "n", "o", "p", "q", "r", "s", "t", "u", "v", "w", "x", "y", "z">>

Uppercase == <<"A", "B", "C", "D", "E", "F", "G", "H", "I", "J", "K", "L", "M",
               "N", "O", "P", "Q", "R", "S", "T", "U", "V", "W", "X", "Y", "Z">>

Punctuation == <<" ", "!", Quote, "#", "$", "%", "&", "'", "(", ")", "*", "+",
                 ",", "-", ".", "/">>

Digits == <<"0", "1", "2", "3", "4", "5", "6", "7", "8", "9">>

IndexOf(c, seq) == CHOOSE i \in 1..Len(seq) : seq[i] = c

IsIn(c, seq) == \E i \in 1..Len(seq) : seq[i] = c

\* ASCII case folding of one character: str.lower(), LIKE, the FTS5 tokenizer
LowerChar(c) == IF IsIn(c, Uppercase) THEN Lowercase[IndexOf(c, Uppercase)] ELSE c

IsAlnum(c) == IsIn(c, Lowercase) \/ IsIn(c, Uppercase)

\* byte value of a character (SQLite's BINARY collation compares bytes)
Code(c) ==
    IF IsIn(c, Lowercase) THEN 96 + IndexOf(c, Lowercase)
    ELSE IF IsIn(c, Uppercase) THEN 64 + IndexOf(c, Uppercase)
    ELSE IF IsIn(c, Punctuation) THEN 31 + IndexOf(c, Punctuation)
    ELSE IF IsIn(c, Digits) THEN 47 + IndexOf(c, Digits)
    ELSE CASE c = ":" -> 58 [] c = "<" -> 60 [] c = "@" -> 64 [] c = "[" -> 91 [] c = Backslash -> 92
           [] c = "]" -> 93 [] c = "_" -> 95 [] c = "{" -> 123 [] c = "}" -> 125

RECURSIVE StrLess(_, _)
\* s < t under SQLite's BINARY collation (memcmp, then length)
StrLess(s, t) ==
    IF t = <<>> THEN FALSE
    ELSE IF s = <<>> THEN TRUE
    ELSE IF Head(s) # Head(t) THEN Code(Head(s)) < Code(Head(t))
    ELSE StrLess(Tail(s), Tail(t))

StrLeq(s, t) == s = t \/ StrLess(s, t)

RECURSIVE Concat(_)
\* "".join(parts)
Concat(parts) ==
    IF parts = <<>> THEN <<>> ELSE Head(parts) \o Concat(Tail(parts))

-----------------------------------------------------------------------------
(* json.dumps / json.loads, as used on the list-valued columns *)

\* an encoder that does not escape quotes and backslashes
JsonEscape_Raw(c) == <<c>>

JsonEscape(c) ==
    IF c = Quote THEN <<Backslash, Quote>>
    ELSE IF c = Backslash THEN <<Backslash, Backslash>>
    ELSE <<c>>

\* a Python str as a JSON string literal
JsonString(s) ==
    <<Quote>> \o Concat([i \in 1..Len(s) |-> JsonEscape(s[i])]) \o <<Quote>>

RECURSIVE JoinComma(_)
\* ", ".join(items), the default item separator of json.dumps
JoinComma(items) ==
    IF items = <<>> THEN <<>>
    ELSE IF Len(items) = 1 THEN items[1]
    ELSE items[1] \o <<",", " ">> \o JoinComma(Tail(items))

JsonArray(items) == <<"[">> \o JoinComma(items) \o <<"]">>

\* json.dumps of a list of str
JsonDumpsStrs(l) == JsonArray([i \in 1..Len(l) |-> JsonString(l[i])])

K_type == <<"t", "y", "p", "e">>

K_required == <<"r", "e", "q", "u", "i", "r", "e", "d">>

K_local == <<"l", "o", "c", "a", "l">>

K_description == <<"d", "e", "s", "c", "r", "i", "p", "t", "i", "o", "n">>

JsonBool(b) == IF b THEN <<"t", "r", "u", "e">> ELSE <<"f", "a", "l", "s", "e">>

JsonOptString(s) == IF s = Null THEN <<"n", "u", "l", "l">> ELSE JsonString(s)

JsonMember(k, text) == JsonString(k) \o <<":", " ">> \o text

\* json.dumps of one credential dict {type, required, local, description}
JsonDumpsCred(c) ==
    <<"{">> \o JoinComma(<<JsonMember(K_type, JsonString(c.type)),
                           JsonMember(K_required, JsonBool(c.required)),
                           JsonMember(K_local, JsonBool(c.local)),
                           JsonMember(K_description, JsonOptString(c.description))>>)
            \o <<"}">>

\* json.dumps of the credentials list
JsonDumpsCreds(l) == JsonArray([i \in 1..Len(l) |-> JsonDumpsCred(l[i])])

At(t, i) == IF i \in 1..Len(t) THEN t[i] ELSE "<eof>"

RECURSIVE SkipWs(_, _)
SkipWs(t, i) == IF At(t, i) = " " THEN SkipWs(t, i + 1) ELSE i

RECURSIVE ScanString(_, _, _)
\* the body of a JSON string literal from position i on, up to the closing quote
ScanString(t, i, acc) ==
    IF At(t, i) = "<eof>" THEN [v |-> Null, i |-> i]
    ELSE IF t[i] = Quote THEN [v |-> acc, i |-> i + 1]
    ELSE IF t[i] = Backslash THEN ScanString(t, i + 2, Append(acc, At(t, i + 1)))
    ELSE ScanString(t, i + 1, Append(acc, t[i]))

RECURSIVE ParseValue(_, _)
RECURSIVE ParseItems(_, _, _)
RECURSIVE ParseMembers(_, _, _)
\* one JSON value at position i: [v |-> the value, i |-> the position after it];
\* an object is returned as the sequence of its <<key, value>> members
ParseValue(t, i) ==
    LET c == At(t, i) IN
    IF c = Quote THEN ScanString(t, i + 1, <<>>)
    ELSE IF c = "[" THEN ParseItems(t, SkipWs(t, i + 1), <<>>)
    ELSE IF c = "{" THEN ParseMembers(t, SkipWs(t, i + 1), <<>>)
    ELSE IF c = "t" THEN [v |-> TRUE, i |-> i + 4]
    ELSE IF c = "f" THEN [v |-> FALSE, i |-> i + 5]
    ELSE [v |-> Null, i |-> i + 4]

ParseItems(t, i, acc) ==
    IF At(t, i) \in {"]", "<eof>"} THEN [v |-> acc, i |-> i + 1]
    ELSE LET r == ParseValue(t, i)
             j == SkipWs(t, r.i)
         IN IF At(t, j) = ","
            THEN ParseItems(t, SkipWs(t, j + 1), Append(acc, r.v))
            ELSE ParseItems(t, j, Append(acc, r.v))

ParseMembers(t, i, acc) ==
    IF At(t, i) \in {"}", "<eof>"} THEN [v |-> acc, i |-> i + 1]
    ELSE LET k == ScanString(t, i + 1, <<>>)
             r == ParseValue(t, SkipWs(t, SkipWs(t, k.i) + 1))
             j == SkipWs(t, r.i)
         IN IF At(t, j) = ","
            THEN ParseMembers(t, SkipWs(t, j + 1), Append(acc, <<k.v, r.v>>))
            ELSE ParseMembers(t, j, Append(acc, <<k.v, r.v>>))

\* json.loads(text)
JsonLoads(t) == ParseValue(t, SkipWs(t, 1)).v

-----------------------------------------------------------------------------
(* SQL text operators *)

RECURSIVE Like(_, _)
\* text LIKE pattern: % is any run, _ any one character, ASCII letters compare
\* without regard to case; no ESCAPE clause is given
Like(pattern, text) ==
    IF pattern = <<>> THEN text = <<>>
    ELSE IF Head(pattern) = "%"
         THEN Like(Tail(pattern), text) \/ (text # <<>> /\ Like(pattern, Tail(text)))
    ELSE /\ text # <<>>
         /\ Head(pattern) = "_" \/ LowerChar(Head(pattern)) = LowerChar(Head(text))
         /\ Like(Tail(pattern), Tail(text))

RECURSIVE Tokens(_, _)
\* the FTS5 default tokenizer: maximal runs of letters, folded to lower case
Tokens(text, cur) ==
    IF text = <<>> THEN (IF cur = <<>> THEN {} ELSE {cur})
    ELSE IF IsAlnum(Head(text)) THEN Tokens(Tail(text), Append(cur, LowerChar(Head(text))))
    ELSE (IF cur = <<>> THEN {} ELSE {cur}) \cup Tokens(Tail(text), <<>>)

\* the tokens FTS5 holds for one index entry
EntryTokens(e) ==
    UNION {IF e[c] = Null THEN {} ELSE Tokens(e[c], <<>>) :
              c \in {"name", "description", "tags", "use_cases", "integrations"}}

\* workflows_fts MATCH query, for a query of bare words (implicit AND)
FtsMatch(e, query) == Tokens(query, <<>>) \subseteq EntryTokens(e)

\* a query FTS5 can parse: bare words separated by blanks
FtsQueryOk(query) == \A i \in 1..Len(query) : IsAlnum(query[i]) \/ query[i] = " "

-----------------------------------------------------------------------------
(* The workflow dict handed to insert_workflow, and the row it becomes *)

Text(x) == <<x>>    \* a text value whose characters do not matter to the store

\* datetime.isoformat() of the instant t
IsoFormat(t) == <<"T", Digits[t + 1]>>

Get(d, k, default) == IF k \in DOMAIN d THEN d[k] ELSE default

Truthy(b) == IF b THEN 1 ELSE 0

\* building the parameter tuple raises no KeyError
NoKeyError(w) ==
    /\ {"id", "name", "category", "difficulty", "source_repo", "json_path",
        "metadata", "requirements", "compatibility", "stats",
        "created_at", "updated_at"} \subseteq DOMAIN w
    /\ "node_count" \in DOMAIN w.metadata
    /\ {"local_ai", "requires_external_api", "works_offline",
        "pozi_compatible", "status", "compatibility_score"} \subseteq DOMAIN w.compatibility

\* the parameter tuple of the INSERT statement, by column
RowOf(w) ==
    [id |-> w.id,
     name |-> w.name,
     description |-> Get(w, "description", Null),
     category |-> w.category,
     subcategory |-> Get(w, "subcategory", Null),
     difficulty |-> w.difficulty,
     author |-> Get(w, "author", Null),
     source_repo |-> w.source_repo,
     source_url |-> Get(w, "source_url", Null),
     json_path |-> w.json_path,
     tags |-> JsonDumpsStrs(Get(w, "tags", <<>>)),
     department |-> Get(w, "department", Null),
     use_cases |-> JsonDumpsStrs(Get(w, "use_cases", <<>>)),
     node_count |-> w.metadata.node_count,
     integrations |-> JsonDumpsStrs(Get(w.metadata, "integrations", <<>>)),
     node_types |-> JsonDumpsStrs(Get(w.metadata, "node_types", <<>>)),
     has_webhook |-> Truthy(Get(w.metadata, "has_webhook", FALSE)),
     has_schedule |-> Truthy(Get(w.metadata, "has_schedule", FALSE)),
     estimated_runtime |-> Get(w.metadata, "estimated_runtime", Null),
     credentials |-> JsonDumpsCreds(Get(w.requirements, "credentials", <<>>)),
     services |-> JsonDumpsStrs(Get(w.requirements, "services", <<>>)),
     external_apis |-> JsonDumpsStrs(Get(w.requirements, "external_apis", <<>>)),
     min_n8n_version |-> Get(w.requirements, "min_n8n_version", Text("1.0.0")),
     local_ai |-> Truthy(w.compatibility.local_ai),
     requires_external_api |-> Truthy(w.compatibility.requires_external_api),
     works_offline |-> Truthy(w.compatibility.works_offline),
     pozi_compatible |-> Truthy(w.compatibility.pozi_compatible),
     compatibility_status |-> w.compatibility.status,
     compatibility_score |-> w.compatibility.compatibility_score,
     popularity_score |-> Get(w.stats, "popularity_score", 0),
     import_count |-> Get(w.stats, "import_count", 0),
     success_rate |-> Get(w.stats, "success_rate", 0),
     avg_setup_time |-> Get(w.stats, "avg_setup_time", Null),
     created_at |-> w.created_at,
     updated_at |-> w.updated_at,
     last_synced |-> Get(w, "last_synced", Null)]

\* the NOT NULL constraints of table workflows
NotNullOk(row) ==
    \A c \in {"name", "category", "difficulty", "source_repo", "json_path",
              "created_at", "updated_at"} : row[c] # Null

\* a table without the primary key
PrimaryKeyOk_None(table, row) == TRUE

\* id TEXT PRIMARY KEY: no stored row has this id
PrimaryKeyOk(table, row) == \A i \in 1..Len(table) : table[i].id # row.id

\* the columns the FTS table mirrors, for the row with this rowid
FtsEntry(rowid, row) ==
    [rowid |-> rowid, name |-> row.name, description |-> row.description,
     tags |-> row.tags, use_cases |-> row.use_cases, integrations |-> row.integrations]

\* trigger workflows_ai: AFTER INSERT ON workflows
Trigger_ai(fts, rowid, new) == fts \cup {FtsEntry(rowid, new)}

\* workflows_au with the WHERE clause left out: every entry is overwritten
Trigger_au_NoWhere(fts, rowid, new) == {FtsEntry(e.rowid, new) : e \in fts}

\* trigger workflows_au: AFTER UPDATE ON workflows
Trigger_au(fts, rowid, new) ==
    {IF e.rowid = rowid THEN FtsEntry(rowid, new) ELSE e : e \in fts}

-----------------------------------------------------------------------------
(* Inputs: the records and the calls the store is driven with *)

NameAb == <<"a", "b">>

NameB == <<"B">>

CatAI == <<"A", "I">>

CatData == <<"D", "a", "t", "a">>

TagA == <<"a">>

TagUpperA == <<"A">>

TagAb == <<"a", "b">>

TagQuoted == <<"q", Quote>>

Beginner == Text("beginner")

Advanced == Text("advanced")

Credential(type, local) ==
    [type |-> type, required |-> TRUE, local |-> local, description |-> Null]

\* a record of the shape parse_workflow builds
Record(id, name, description, category, difficulty, tags, local_ai, popularity) ==
    [id |-> Text(id),
     name |-> name,
     description |-> description,
     category |-> category,
     subcategory |-> IF category = CatAI THEN Text("General AI") ELSE Text("Data Processing"),
     difficulty |-> difficulty,
     author |-> Text("Zie619"),
     source_repo |-> Text("Zie619/n8n-workflows"),
     source_url |-> IF local_ai THEN Text("https://github.com/x.json") ELSE Null,
     json_path |-> Text("data/workflows/x.json"),
     tags |-> tags,
     department |-> IF category = CatAI THEN Text("Engineering") ELSE Text("Analytics"),
     use_cases |-> IF local_ai THEN << <<"C", "h", "a", "t", " ", "B", "o", "t">> >> ELSE <<>>,
     metadata |->
        [node_count |-> Len(tags),
         integrations |-> IF local_ai THEN << <<"s", "l", "a", "c", "k">> >> ELSE <<>>,
         node_types |-> IF local_ai THEN <<Text("n8n-nodes-base.slack")>> ELSE <<>>,
         has_webhook |-> local_ai,
         has_schedule |-> ~local_ai,
         estimated_runtime |-> Text("< 1 minute")],
     requirements |->
        [credentials |-> IF local_ai THEN <<Credential(<<"o", "l", "l", "a", "m", "a">>, TRUE)>>
                         ELSE <<Credential(<<"x">>, FALSE), Credential(TagQuoted, FALSE)>>,
         services |-> IF local_ai THEN << <<"o", "l", "l", "a", "m", "a">> >> ELSE <<>>,
         external_apis |-> IF local_ai THEN <<>> ELSE << <<"x">>, TagQuoted >>,
         min_n8n_version |-> Text("1.0.0")],
     compatibility |->
        [local_ai |-> local_ai,
         requires_external_api |-> ~local_ai,
         works_offline |-> local_ai,
         pozi_compatible |-> local_ai,
         status |-> IF local_ai THEN Text("fully_compatible") ELSE Text("requires_external"),
         compatibility_score |-> IF local_ai THEN 100 ELSE 20],
     stats |->
        [popularity_score |-> popularity, import_count |-> 0, success_rate |-> 0,
         avg_setup_time |-> Null],
     created_at |-> IsoFormat(0),
     updated_at |-> IsoFormat(0),
     last_synced |-> Null]

W1 == Record("w1", NameAb, <<"a", " ", "B">>, CatAI, Beginner, <<TagA>>, TRUE, 0)

W2 == Record("w2", NameAb, Null, CatAI, Advanced, <<TagUpperA>>, FALSE, 0)

W3 == Record("w3", NameB, Null, CatData, Beginner, <<TagAb, TagQuoted>>, TRUE, 1)

\* another record with the identifier of W1
W1Again == Record("w1", NameB, Null, CatData, Advanced, <<>>, FALSE, 0)

\* W2 without the key 'name'
WNoName == [k \in DOMAIN W2 \ {"name"} |-> W2[k]]

\* W3 with name None
WNullName == [W3 EXCEPT !.name = Null]

BuiltRecords == {W1, W2, W3, W1Again}

InsertInputs == BuiltRecords \cup {WNoName, WNullName}

Ids == {Text("w1"), Text("w2"), Text("w3"), Text("w0")}

DefaultLimit == 20

MaxLimit == 2       \* page sizes 0..MaxLimit are explored

MaxOffset == 1      \* offsets 0..MaxOffset are explored

NoTags == <<>>      \* tags=None and tags=[] are both falsy: no tag condition

Call(query, category, difficulty, local_ai_only, tags, limit, offset) ==
    [query |-> query, category |-> category, difficulty |-> difficulty,
     local_ai_only |-> local_ai_only, tags |-> tags, limit |-> limit, offset |-> offset]

\* calls that vary the exact-match filters
FilterCalls ==
    {Call(Null, c, d, l, NoTags, DefaultLimit, 0) :
        c \in {Null, <<>>, CatAI, <<"a", "i">>}, d \in {Null, Beginner}, l \in BOOLEAN}

\* calls that vary the tag filter
TagCalls ==
    {Call(Null, Null, Null, FALSE, t, DefaultLimit, 0) :
        t \in {<<TagA>>, <<TagAb>>, <<TagQuoted>>, << <<"_">> >>, <<TagA, TagAb>>}}
    \cup {Call(Null, CatAI, Null, TRUE, <<TagA>>, DefaultLimit, 0)}

\* calls that vary the page
PageCalls ==
    {Call(Null, c, Null, FALSE, NoTags, limit, offset) :
        c \in {Null, CatAI}, limit \in 0..MaxLimit, offset \in 0..MaxOffset}

\* calls with a full-text query
QueryCalls ==
    {Call(q, Null, Null, FALSE, NoTags, DefaultLimit, 0) :
        q \in {<<>>, <<"B">>, <<"b", "o", "t", " ", "a">>}}

SearchCalls == FilterCalls \cup TagCalls \cup PageCalls \cup QueryCalls

StatValues == {NoInt, 5}

-----------------------------------------------------------------------------
(* The store operations of class Database *)

Idle == [op |-> "idle"]

Returned(op, call, result) == [op |-> op, call |-> call, raised |-> FALSE, result |-> result]

\* the call ended with sqlite3.OperationalError (no such table)
Raised(op, call) == [op |-> op, call |-> call, raised |-> TRUE]

Init ==
    /\ schema = FALSE
    /\ workflows = <<>>
    /\ workflows_fts = {}
    /\ clock = 1
    /\ ret = Idle

\* CREATE TABLE after dropping what was there
CreateIfNotExists_Recreate(exists, table, empty) == empty

\* CREATE TABLE IF NOT EXISTS: an existing table is kept as it is
CreateIfNotExists(exists, table, empty) == IF exists THEN table ELSE empty

\* init_db
InitDb ==
    /\ ret.op = "idle"
    /\ schema' = TRUE
    /\ workflows' = CreateIfNotExists(schema, workflows, <<>>)
    /\ workflows_fts' = CreateIfNotExists(schema, workflows_fts, {})
    /\ ret' = Returned("init_db", Null, Null)
    /\ UNCHANGED clock

\* the INSERT statement succeeds: the table exists and no constraint fails
InsertOk(w) ==
    /\ NoKeyError(w)
    /\ schema
    /\ NotNullOk(RowOf(w))
    /\ PrimaryKeyOk(workflows, RowOf(w))

\* insert_workflow(workflow)
InsertWorkflow(w) ==
    /\ ret.op = "idle"
    /\ Len(workflows) < MaxRows
    /\ IF InsertOk(w)
       THEN /\ workflows' = Append(workflows, RowOf(w))
            /\ workflows_fts' = Trigger_ai(workflows_fts, Len(workflows) + 1, RowOf(w))
            /\ ret' = Returned("insert_workflow", w, TRUE)
       ELSE /\ UNCHANGED <<workflows, workflows_fts>>
            /\ ret' = Returned("insert_workflow", w, FALSE)
    /\ UNCHANGED <<schema, clock>>

\* SELECT * FROM workflows WHERE id = ?, fetchone: at most one row
SelectById(table, id) ==
    LET hits == {i \in 1..Len(table) : table[i].id = id}
    IN IF hits = {} THEN <<>> ELSE <<table[CHOOSE i \in hits : \A j \in hits : i <= j]>>

\* get_workflow(workflow_id): the row as a dict, or None (the empty sequence)
GetWorkflow(id) ==
    /\ ret.op = "idle"
    /\ ret' = IF schema THEN Returned("get_workflow", id, SelectById(workflows, id))
              ELSE Raised("get_workflow", id)
    /\ UNCHANGED <<schema, workflows, workflows_fts, clock>>

IsGiven(text) == text # Null /\ text # <<>>

\* the LIKE pattern built for one requested tag
TagPattern(tag) == <<"%", Quote>> \o tag \o <<Quote, "%">>

\* str.lower()
Lower(text) == [i \in 1..Len(text) |-> LowerChar(text[i])]

\* the WHERE clause with the category compared without regard to case
Where_NoCase(table, fts, rowid, call) ==
    /\ IsGiven(call.query) =>
          rowid \in {e.rowid : e \in {x \in fts : FtsMatch(x, call.query)}}
    /\ IsGiven(call.category) => Lower(table[rowid].category) = Lower(call.category)
    /\ IsGiven(call.difficulty) => table[rowid].difficulty = call.difficulty
    /\ call.local_ai_only => table[rowid].local_ai = 1
    /\ \A i \in 1..Len(call.tags) : Like(TagPattern(call.tags[i]), table[rowid].tags)

\* the WHERE clause of search_workflows, for the row with this rowid
Where(table, fts, rowid, call) ==
    /\ IsGiven(call.query) =>
          rowid \in {e.rowid : e \in {x \in fts : FtsMatch(x, call.query)}}
    /\ IsGiven(call.category) => table[rowid].category = call.category
    /\ IsGiven(call.difficulty) => table[rowid].difficulty = call.difficulty
    /\ call.local_ai_only => table[rowid].local_ai = 1
    /\ \A i \in 1..Len(call.tags) : Like(TagPattern(call.tags[i]), table[rowid].tags)

\* ORDER BY popularity_score ASC, name ASC
OrderedBefore_Asc(a, b) ==
    \/ a.popularity_score < b.popularity_score
    \/ a.popularity_score = b.popularity_score /\ StrLeq(a.name, b.name)

\* ORDER BY popularity_score DESC, name ASC: a may come before b
OrderedBefore(a, b) ==
    \/ a.popularity_score > b.popularity_score
    \/ a.popularity_score = b.popularity_score /\ StrLeq(a.name, b.name)

\* every order of the rowids the ORDER BY clause allows; rows equal in both keys
\* come in an order the statement does not fix
Orderings(table, rowids) ==
    {p \in [1..Cardinality(rowids) -> rowids] :
        /\ \A i, j \in DOMAIN p : i # j => p[i] # p[j]
        /\ \A i, j \in DOMAIN p : i < j => OrderedBefore(table[p[i]], table[p[j]])}

Min(a, b) == IF a < b THEN a ELSE b

\* LIMIT ? OFFSET ?
LimitOffset(seq, limit, offset) == SubSeq(seq, offset + 1, Min(Len(seq), offset + limit))

\* the row lists search_workflows may return
SearchResults(table, fts, call) ==
    LET hits == {i \in 1..Len(table) : Where(table, fts, i, call)}
    IN {LimitOffset([k \in 1..Len(p) |-> table[p[k]]], call.limit, call.offset) :
           p \in Orderings(table, hits)}

\* search_workflows(query, category, difficulty, local_ai_only, tags, limit, offset)
SearchWorkflows(call) ==
    /\ ret.op = "idle"
    /\ IF schema /\ (IsGiven(call.query) => FtsQueryOk(call.query))
       THEN \E rows \in SearchResults(workflows, workflows_fts, call) :
                ret' = Returned("search_workflows", call, rows)
       ELSE ret' = Raised("search_workflows", call)
    /\ UNCHANGED <<schema, workflows, workflows_fts, clock>>

\* reading table categories, which nothing ever fills, instead of grouping workflows
CategoryCounts_Stored(table) == <<>>

\* SELECT category, COUNT(*) ... GROUP BY category ORDER BY category
CategoryCounts(table) ==
    LET cats == {table[i].category : i \in 1..Len(table)}
        order == CHOOSE p \in [1..Cardinality(cats) -> cats] :
                    \A i, j \in DOMAIN p : i < j => StrLess(p[i], p[j])
    IN [k \in 1..Cardinality(cats) |->
           [category |-> order[k],
            workflow_count |-> Cardinality({i \in 1..Len(table) : table[i].category = order[k]})]]

\* get_categories()
GetCategories ==
    /\ ret.op = "idle"
    /\ ret' = IF schema THEN Returned("get_categories", Null, CategoryCounts(workflows))
              ELSE Raised("get_categories", Null)
    /\ UNCHANGED <<schema, workflows, workflows_fts, clock>>

\* SELECT COUNT(*) FROM workflows
CountRows(table) == Len(table)

\* get_workflow_count()
GetWorkflowCount ==
    /\ ret.op = "idle"
    /\ ret' = IF schema THEN Returned("get_workflow_count", Null, CountRows(workflows))
              ELSE Raised("get_workflow_count", Null)
    /\ UNCHANGED <<schema, workflows, workflows_fts, clock>>

\* the SET clause: the stat columns that were given, then updated_at
\* a stat update that also raises popularity_score by the import count
SetStats_Popular(row, import_count, success_rate, now) ==
    [row EXCEPT !.import_count = IF import_count # NoInt THEN import_count ELSE @,
                !.popularity_score = IF import_count # NoInt THEN import_count ELSE @,
                !.success_rate = IF success_rate # NoInt THEN success_rate ELSE @,
                !.updated_at = IsoFormat(now)]

SetStats(row, import_count, success_rate, now) ==
    [row EXCEPT !.import_count = IF import_count # NoInt THEN import_count ELSE @,
                !.success_rate = IF success_rate # NoInt THEN success_rate ELSE @,
                !.updated_at = IsoFormat(now)]

\* the UPDATE with the WHERE clause left out: every row is updated
UpdateWhereId_NoWhere(table, id, import_count, success_rate, now) ==
    [i \in 1..Len(table) |-> SetStats(table[i], import_count, success_rate, now)]

\* UPDATE workflows SET ... WHERE id = ?
UpdateWhereId(table, id, import_count, success_rate, now) ==
    [i \in 1..Len(table) |->
        IF table[i].id = id THEN SetStats(table[i], import_count, success_rate, now)
        ELSE table[i]]

RECURSIVE FireUpdateTriggers(_, _, _, _)
\* workflows_au fires once for each updated row
FireUpdateTriggers(fts, table, id, i) ==
    IF i > Len(table) THEN fts
    ELSE FireUpdateTriggers(IF table[i].id = id THEN Trigger_au(fts, i, table[i]) ELSE fts,
                            table, id, i + 1)

\* update_workflow_stats(workflow_id, import_count, success_rate)
UpdateWorkflowStats(id, import_count, success_rate) ==
    /\ ret.op = "idle"
    /\ IF import_count = NoInt /\ success_rate = NoInt
       THEN /\ UNCHANGED <<workflows, workflows_fts, clock>>
            /\ ret' = Returned("update_workflow_stats", <<id, import_count, success_rate>>, Null)
       ELSE IF ~schema
       THEN /\ UNCHANGED <<workflows, workflows_fts>>
            /\ clock' = clock + 1
            /\ ret' = Raised("update_workflow_stats", <<id, import_count, success_rate>>)
       ELSE /\ workflows' = UpdateWhereId(workflows, id, import_count, success_rate, clock)
            /\ workflows_fts' = FireUpdateTriggers(workflows_fts, workflows', id, 1)
            /\ clock' = clock + 1
            /\ ret' = Returned("update_workflow_stats", <<id, import_count, success_rate>>, Null)
    /\ (import_count # NoInt \/ success_rate # NoInt) => clock < MaxClock
    /\ UNCHANGED schema

\* the caller takes the result; the next call can start
Return ==
    /\ ret.op # "idle"
    /\ ret' = Idle
    /\ UNCHANGED <<schema, workflows, workflows_fts, clock>>

Next ==
    \/ InitDb
    \/ \E w \in InsertInputs : InsertWorkflow(w)
    \/ \E id \in Ids : GetWorkflow(id)
    \/ \E call \in SearchCalls : SearchWorkflows(call)
    \/ GetCategories
    \/ GetWorkflowCount
    \/ \E id \in Ids, i \in StatValues, r \in StatValues : UpdateWorkflowStats(id, i, r)
    \/ Return

Spec == Init /\ [][Next]_vars

-----------------------------------------------------------------------------
(* The API layer's view of a row (main.py) *)

JsonColumns == {"tags", "use_cases", "integrations", "node_types", "services",
                "external_apis", "credentials"}

\* get_workflow / list_workflows: the list-valued columns are json.loads-ed
ApiDecode(row) ==
    [c \in DOMAIN row |-> IF c \in JsonColumns THEN JsonLoads(row[c]) ELSE row[c]]

-----------------------------------------------------------------------------
(* Claims about the catalog store *)

Rowids == 1..Len(workflows)

SearchReturned == ret.op = "search_workflows" /\ ~ret.raised

\* C1: the text index mirrors the table: one entry per row, with the row's
\* rowid and its current name, description, tags, use_cases and integrations,
\* and no entry without a row.
C1_IndexMirrorsTable ==
    workflows_fts =
        {[rowid |-> i, name |-> workflows[i].name, description |-> workflows[i].description,
          tags |-> workflows[i].tags, use_cases |-> workflows[i].use_cases,
          integrations |-> workflows[i].integrations] : i \in Rowids}

\* a stat update has fired the update trigger on one of several rows
C1_Witness ==
    /\ ret.op = "update_workflow_stats"
    /\ Len(workflows) >= 2
    /\ \E i \in Rowids : workflows[i].id = ret.call[1] /\ workflows[i].import_count = 5

\* the items() of a credential dict, as json.loads returns an object
CredItems(c) ==
    <<<<K_type, c.type>>, <<K_required, c.required>>, <<K_local, c.local>>,
      <<K_description, c.description>>>>

\* the fields of a record r, by column, with True/False read as 1/0
FieldsOf(r) ==
    [id |-> r.id, name |-> r.name, description |-> r.description,
     category |-> r.category, subcategory |-> r.subcategory,
     difficulty |-> r.difficulty, author |-> r.author,
     source_repo |-> r.source_repo, source_url |-> r.source_url,
     json_path |-> r.json_path, tags |-> r.tags, department |-> r.department,
     use_cases |-> r.use_cases,
     node_count |-> r.metadata.node_count,
     integrations |-> r.metadata.integrations,
     node_types |-> r.metadata.node_types,
     has_webhook |-> IF r.metadata.has_webhook THEN 1 ELSE 0,
     has_schedule |-> IF r.metadata.has_schedule THEN 1 ELSE 0,
     estimated_runtime |-> r.metadata.estimated_runtime,
     credentials |-> [i \in 1..Len(r.requirements.credentials) |->
                         CredItems(r.requirements.credentials[i])],
     services |-> r.requirements.services,
     external_apis |-> r.requirements.external_apis,
     min_n8n_version |-> r.requirements.min_n8n_version,
     local_ai |-> IF r.compatibility.local_ai THEN 1 ELSE 0,
     requires_external_api |-> IF r.compatibility.requires_external_api THEN 1 ELSE 0,
     works_offline |-> IF r.compatibility.works_offline THEN 1 ELSE 0,
     pozi_compatible |-> IF r.compatibility.pozi_compatible THEN 1 ELSE 0,
     compatibility_status |-> r.compatibility.status,
     compatibility_score |-> r.compatibility.compatibility_score,
     popularity_score |-> r.stats.popularity_score,
     import_count |-> r.stats.import_count,
     success_rate |-> r.stats.success_rate,
     avg_setup_time |-> r.stats.avg_setup_time,
     created_at |-> r.created_at, updated_at |-> r.updated_at,
     last_synced |-> r.last_synced]

\* C2 (amended): round trip: once insert(r) has returned success, getById(r.id)
\* finds one row, and that row, with its seven list columns json-decoded as the
\* API does, has every field of r with r's value.
C2_RoundTrip ==
    (ret.op = "insert_workflow" /\ ret.result) =>
        LET got == SelectById(workflows, ret.call.id)
        IN Len(got) = 1 /\ ApiDecode(got[1]) = FieldsOf(ret.call)

\* C2 as stated: the row getById returns is itself equal to r in all fields
\* (r's nested groups read as columns, True/False as 1/0).
C2_RowEqualsRecord ==
    (ret.op = "insert_workflow" /\ ret.result) =>
        LET got == SelectById(workflows, ret.call.id)
        IN Len(got) = 1 /\ got[1] = FieldsOf(ret.call)

\* a record whose tags hold a quote character has been inserted
C2_Witness ==
    /\ ret.op = "insert_workflow"
    /\ ret.result
    /\ \E i \in 1..Len(ret.call.tags) : \E k \in 1..Len(ret.call.tags[i]) :
          ret.call.tags[i][k] = Quote

\* C3: a search result is ordered by popularity_score descending, then by name
\* ascending (byte order), and has at most limit rows.
C3_OrderedAndLimited ==
    SearchReturned =>
        /\ Len(ret.result) <= ret.call.limit
        /\ \A i, j \in 1..Len(ret.result) : i < j =>
              /\ ret.result[i].popularity_score >= ret.result[j].popularity_score
              /\ ret.result[i].popularity_score = ret.result[j].popularity_score =>
                    StrLeq(ret.result[i].name, ret.result[j].name)

\* a page cut by the limit, holding rows of different popularity
C3_Witness ==
    /\ SearchReturned
    /\ Len(workflows) = 3
    /\ Len(ret.result) = 2
    /\ ret.call.limit = 2
    /\ ret.result[1].popularity_score > ret.result[2].popularity_score

\* what is not a filter: None, or the empty string
NotGiven(value) == value = Null \/ value = <<>>

\* the exact-match filters of a call hold of a row
FiltersHold(row, call) ==
    /\ NotGiven(call.category) \/ row.category = call.category
    /\ NotGiven(call.difficulty) \/ row.difficulty = call.difficulty
    /\ call.local_ai_only => row.local_ai = 1

\* the call asks for the whole result: no page cuts it
Unpaginated(call) == call.offset = 0 /\ call.limit >= Len(workflows)

\* C4 as stated: for fixed filters there is one ordered list of which every page
\* search(limit, offset) can return is the window [offset, offset+limit), also
\* when records are equal in popularity_score and name.
C4_PagesOfOneList ==
    schema =>
        \A c \in {Null, CatAI} :
            \E L \in SearchResults(workflows, workflows_fts,
                                   Call(Null, c, Null, FALSE, NoTags, Len(workflows), 0)) :
                \A limit \in 0..MaxLimit, offset \in 0..MaxOffset :
                    offset + limit <= Len(L) =>
                        \A page \in SearchResults(workflows, workflows_fts,
                                                  Call(Null, c, Null, FALSE, NoTags, limit, offset)) :
                            page = SubSeq(L, offset + 1, offset + limit)

\* a requested tag is an element of the row's tag list
HasTag(row, tag) ==
    LET tags == JsonLoads(row.tags) IN \E k \in 1..Len(tags) : tags[k] = tag

\* C5 as stated: with a tags filter, search returns exactly the records that
\* pass the other filters and hold every requested tag as an exact element.
C5_TagFilterExact ==
    (SearchReturned /\ ret.call.tags # NoTags /\ NotGiven(ret.call.query)
                    /\ Unpaginated(ret.call)) =>
        {ret.result[k].id : k \in 1..Len(ret.result)} =
            {workflows[i].id : i \in
                {j \in Rowids : /\ FiltersHold(workflows[j], ret.call)
                                /\ \A t \in 1..Len(ret.call.tags) :
                                      HasTag(workflows[j], ret.call.tags[t])}}

\* C6: every returned row has exactly the category and difficulty asked for and
\* local_ai = 1 when local_ai_only is set; a filter that is not given (None or
\* empty) constrains nothing; without query, tags and page cut, every stored
\* row that passes the filters is returned.
C6_ExactFilters ==
    SearchReturned =>
        /\ \A k \in 1..Len(ret.result) : FiltersHold(ret.result[k], ret.call)
        /\ (NotGiven(ret.call.query) /\ ret.call.tags = NoTags /\ Unpaginated(ret.call)) =>
              \A i \in Rowids : FiltersHold(workflows[i], ret.call) =>
                  \E k \in 1..Len(ret.result) : ret.result[k] = workflows[i]

\* all three filters given: one of three stored rows passes
C6_Witness ==
    /\ SearchReturned
    /\ ret.call.category = CatAI
    /\ ret.call.difficulty = Beginner
    /\ ret.call.local_ai_only
    /\ Len(workflows) = 3
    /\ Len(ret.result) = 1

StatColumns == {"import_count", "success_rate", "updated_at"}

NonStat(row) == [c \in DOMAIN row \ StatColumns |-> row[c]]

\* C7: no step changes a column of a stored row other than import_count,
\* success_rate and updated_at; update_workflow_stats changes, on the row with
\* the given id only, the stat columns that were given and updated_at, and
\* nothing at all when neither was given; index and schema are left alone.
C7_UpdateStatsFrame ==
    [][/\ Len(workflows') >= Len(workflows)
       /\ \A i \in Rowids : NonStat(workflows'[i]) = NonStat(workflows[i])
       /\ ret'.op = "update_workflow_stats" =>
            LET id == ret'.call[1]
                import_count == ret'.call[2]
                success_rate == ret'.call[3]
                none == import_count = NoInt /\ success_rate = NoInt
            IN /\ Len(workflows') = Len(workflows)
               /\ workflows_fts' = workflows_fts
               /\ schema' = schema
               /\ none => workflows' = workflows
               /\ \A i \in Rowids :
                    /\ workflows[i].id # id => workflows'[i] = workflows[i]
                    /\ import_count = NoInt =>
                          workflows'[i].import_count = workflows[i].import_count
                    /\ success_rate = NoInt =>
                          workflows'[i].success_rate = workflows[i].success_rate
                    /\ (workflows[i].id = id /\ ~none /\ ~ret'.raised) =>
                          /\ import_count # NoInt => workflows'[i].import_count = import_count
                          /\ success_rate # NoInt => workflows'[i].success_rate = success_rate
                          /\ workflows'[i].updated_at = IsoFormat(clock)
      ]_vars

\* only import_count was given, for one of several stored rows
C7_Witness ==
    /\ ret.op = "update_workflow_stats"
    /\ ret.call[2] = 5
    /\ ret.call[3] = NoInt
    /\ Len(workflows) >= 2
    /\ \E i \in Rowids : /\ workflows[i].id = ret.call[1]
                         /\ workflows[i].import_count = 5
                         /\ workflows[i].updated_at # workflows[i].created_at

\* C8: insert returns a boolean and never raises; true means the record was
\* appended; false leaves table and index as they were; a record with a stored
\* identifier, without name or with name None, or any record before init, gets
\* false; no two stored rows share an identifier.
C8_InsertAllOrNothing ==
    /\ [](\A i, j \in Rowids : i # j => workflows[i].id # workflows[j].id)
    /\ [][ret'.op = "insert_workflow" =>
            LET w == ret'.call IN
            /\ ~ret'.raised
            /\ ret'.result \in BOOLEAN
            /\ ret'.result =>
                  /\ Len(workflows') = Len(workflows) + 1
                  /\ SubSeq(workflows', 1, Len(workflows)) = workflows
                  /\ workflows'[Len(workflows')].id = w.id
            /\ ~ret'.result => workflows' = workflows /\ workflows_fts' = workflows_fts
            /\ (\/ ~schema
                \/ "name" \notin DOMAIN w
                \/ w.name = Null
                \/ \E i \in Rowids : workflows[i].id = w.id) => ~ret'.result
          ]_vars

\* an insert refused because the identifier is already stored
C8_Witness ==
    /\ ret.op = "insert_workflow"
    /\ ~ret.result
    /\ "name" \in DOMAIN ret.call
    /\ ret.call.name # Null
    /\ \E i \in Rowids : workflows[i].id = ret.call.id /\ workflows[i].name # ret.call.name

\* C9: init on an initialised store leaves schema, rows, row count and index
\* as they were.
C9_InitIdempotent ==
    [][(schema /\ ret'.op = "init_db") =>
            /\ schema'
            /\ workflows' = workflows
            /\ workflows_fts' = workflows_fts
            /\ CountRows(workflows') = CountRows(workflows)
      ]_vars

\* init has run on a store that holds rows, one with updated stats
C9_Witness ==
    /\ ret.op = "init_db"
    /\ Len(workflows) >= 2
    /\ \E i \in Rowids : workflows[i].import_count = 5

RECURSIVE SumCounts(_)
SumCounts(entries) ==
    IF entries = <<>> THEN 0 ELSE Head(entries).workflow_count + SumCounts(Tail(entries))

\* C10: listCategories returns one entry per category present among the stored
\* rows, with the number of rows of that category, in ascending (byte) order of
\* category, and the counts sum to count().
C10_CategoriesLive ==
    (ret.op = "get_categories" /\ ~ret.raised) =>
        /\ {ret.result[k].category : k \in 1..Len(ret.result)} =
              {workflows[i].category : i \in Rowids}
        /\ \A k \in 1..Len(ret.result) :
              ret.result[k].workflow_count =
                  Cardinality({i \in Rowids : workflows[i].category = ret.result[k].category})
        /\ \A j, k \in 1..Len(ret.result) :
              j < k => StrLess(ret.result[j].category, ret.result[k].category)
        /\ SumCounts(ret.result) = CountRows(workflows)

\* two categories, one of them with two rows
C10_Witness ==
    /\ ret.op = "get_categories"
    /\ ~ret.raised
    /\ Len(ret.result) = 2
    /\ ret.result[1].workflow_count = 2

-----------------------------------------------------------------------------
(* Python float (IEEE 754 binary64) arithmetic of the compatibility score.  *)
(* A value is the exact count of 2^-55 held as limbs of 14 bits, least     *)
(* significant first (limbs 0..2^14-1); every difference is rounded to 53 significant bits,  *)
(* ties to even, as the hardware does.                                     *)

RECURSIVE Carry(_, _)
\* limbs brought back into 0..Limb-1, the excess carried upwards
Carry(v, c) ==
    IF v = <<>> THEN <<>>
    ELSE LET x == Head(v) + c
             Limb == 2^14
         IN  <<x % Limb>> \o Carry(Tail(v), (x - (x % Limb)) \div Limb)

BigAdd(a, b) == Carry([i \in 1..Len(a) |-> a[i] + b[i]], 0)

\* a - b, for a >= b
BigSub(a, b) == Carry([i \in 1..Len(a) |-> a[i] - b[i]], 0)

BigMul(a, k) == Carry([i \in 1..Len(a) |-> a[i] * k], 0)

RECURSIVE BigLessFrom(_, _, _)
BigLessFrom(a, b, i) ==
    IF i = 0 THEN FALSE
    ELSE IF a[i] # b[i] THEN a[i] < b[i]
    ELSE BigLessFrom(a, b, i - 1)

BigLess(a, b) == BigLessFrom(a, b, Len(a))

\* the float literals of _analyze_compatibility, in units of 2^-55
F_1_0 == <<0, 0, 0, 8192, 0>>             \* 1.0 = 0x1.0000000000000p+0

F_0_3 == <<9830, 6553, 9830, 2457, 0>>    \* 0.3 = 0x1.3333333333333p-2

F_0_2 == <<6554, 9830, 6553, 1638, 0>>    \* 0.2 = 0x1.999999999999ap-3

F_0_8 == <<9832, 6553, 9830, 6553, 0>>    \* 0.8 = 0x1.999999999999ap-1

F_0_5 == <<0, 0, 0, 4096, 0>>             \* 0.5 = 0x1.0000000000000p-1

\* 2^-55 units in one unit of the last place of v
Ulp(v) ==
    IF ~BigLess(v, F_1_0) THEN 8
    ELSE IF ~BigLess(v, F_0_5) THEN 4
    ELSE IF ~BigLess(BigMul(v, 2), F_0_5) THEN 2
    ELSE 1

\* round to nearest representable double, ties to even
RoundToDouble(v) ==
    LET u == Ulp(v)
        r == v[1] % u
        down == BigSub(v, <<r, 0, 0, 0, 0>>)
        odd == ((down[1] \div u) % 2) = 1
    IN  IF 2 * r > u \/ (2 * r = u /\ odd) THEN BigAdd(down, <<u, 0, 0, 0, 0>>) ELSE down

\* a float difference that adds instead
FSub_Add(a, b) == RoundToDouble(BigAdd(a, b))

\* a - b on floats
FSub(a, b) == RoundToDouble(BigSub(a, b))

\* a >= b on floats
FGeq(a, b) == ~BigLess(a, b)

\* round(x, 2) in hundredths: the nearest multiple of 0.01 to the exact value,
\* ties to the even one
Round2(x) ==
    CHOOSE n \in 0..200 :
        LET twice == BigAdd(BigMul(x, 200), F_1_0)       \* 200x + 1
            lo == BigMul(F_1_0, 2 * n)                    \* 2n
            hi == BigMul(F_1_0, 2 * n + 2)                \* 2n + 2
        IN  \/ BigLess(lo, twice) /\ BigLess(twice, hi)
            \/ twice = lo /\ n % 2 = 0
            \/ twice = hi /\ n % 2 = 0

-----------------------------------------------------------------------------
(* Python str and list operations used by the parser *)

\* kw in text
Contains(text, kw) ==
    \E i \in 0..(Len(text) - Len(kw)) : SubSeq(text, i + 1, i + Len(kw)) = kw

\* text.startswith(prefix)
StartsWith(text, prefix) ==
    Len(prefix) <= Len(text) /\ SubSeq(text, 1, Len(prefix)) = prefix

RECURSIVE Remove(_, _)
\* text.replace(old, '')
Remove(text, old) ==
    IF text = <<>> THEN <<>>
    ELSE IF StartsWith(text, old) THEN Remove(SubSeq(text, Len(old) + 1, Len(text)), old)
    ELSE <<Head(text)>> \o Remove(Tail(text), old)

RECURSIVE LastPart(_, _)
\* text.split(sep)[-1], sep one character
LastPart(text, sep) ==
    IF ~IsIn(sep, text) THEN text
    ELSE LastPart(SubSeq(text, IndexOf(sep, text) + 1, Len(text)), sep)

\* a list in reverse of sorted order
RECURSIVE Sorted_Descending(_)
Sorted_Descending(S) ==
    IF S = {} THEN <<>>
    ELSE LET m == CHOOSE x \in S : \A y \in S : StrLeq(y, x)
         IN  <<m>> \o Sorted_Descending(S \ {m})

RECURSIVE Sorted(_)
\* sorted(list(S)) for a set of str
Sorted(S) ==
    IF S = {} THEN <<>>
    ELSE LET m == CHOOSE x \in S : \A y \in S : StrLeq(x, y)
         IN  <<m>> \o Sorted(S \ {m})

\* l[:n]
Take(l, n) == SubSeq(l, 1, Min(Len(l), n))

Range(l) == {l[i] : i \in 1..Len(l)}

-----------------------------------------------------------------------------
(* class WorkflowParser (app/services/parser.py).  A node is a record with *)
(* the keys of the JSON object: type, credentials (its keys, in order) and *)
(* content (parameters.content); absent keys are absent from the record.   *)

LOCAL_SERVICES ==
    {<<"o", "l", "l", "a", "m", "a">>, <<"p", "o", "s", "t", "g", "r", "e", "s">>, <<"q", "d", "r", "a", "n", "t">>, <<"s", "u", "p", "a", "b", "a", "s", "e">>, <<"n", "e", "o", "4", "j">>,
     <<"l", "a", "n", "g", "f", "u", "s", "e">>, <<"f", "l", "o", "w", "i", "s", "e">>, <<"r", "e", "d", "i", "s">>, <<"m", "i", "n", "i", "o">>, <<"c", "l", "i", "c", "k", "h", "o", "u", "s", "e">>}

LOCAL_AI_NODES ==
    {<<"@", "n", "8", "n", "/", "n", "8", "n", "-", "n", "o", "d", "e", "s", "-", "l", "a", "n", "g", "c", "h", "a", "i", "n", ".", "a", "g", "e", "n", "t">>,
     <<"@", "n", "8", "n", "/", "n", "8", "n", "-", "n", "o", "d", "e", "s", "-", "l", "a", "n", "g", "c", "h", "a", "i", "n", ".", "c", "h", "a", "i", "n", "L", "l", "m">>,
     <<"@", "n", "8", "n", "/", "n", "8", "n", "-", "n", "o", "d", "e", "s", "-", "l", "a", "n", "g", "c", "h", "a", "i", "n", ".", "c", "h", "a", "i", "n", "S", "u", "m", "m", "a", "r", "i", "z", "a", "t", "i", "o", "n">>,
     <<"@", "n", "8", "n", "/", "n", "8", "n", "-", "n", "o", "d", "e", "s", "-", "l", "a", "n", "g", "c", "h", "a", "i", "n", ".", "c", "h", "a", "i", "n", "R", "e", "t", "r", "i", "e", "v", "a", "l", "Q", "a">>,
     <<"@", "n", "8", "n", "/", "n", "8", "n", "-", "n", "o", "d", "e", "s", "-", "l", "a", "n", "g", "c", "h", "a", "i", "n", ".", "l", "m", "C", "h", "a", "t", "O", "l", "l", "a", "m", "a">>,
     <<"@", "n", "8", "n", "/", "n", "8", "n", "-", "n", "o", "d", "e", "s", "-", "l", "a", "n", "g", "c", "h", "a", "i", "n", ".", "l", "m", "O", "l", "l", "a", "m", "a">>,
     <<"@", "n", "8", "n", "/", "n", "8", "n", "-", "n", "o", "d", "e", "s", "-", "l", "a", "n", "g", "c", "h", "a", "i", "n", ".", "e", "m", "b", "e", "d", "d", "i", "n", "g", "s", "O", "l", "l", "a", "m", "a">>}

\* node.get('type', '')
NodeType(node) == Get(node, "type", <<>>)

\* the integration names one node type contributes
Integration(node_type) ==
    IF StartsWith(node_type, <<"n", "8", "n", "-", "n", "o", "d", "e", "s", "-", "b", "a", "s", "e", ".">>)
    THEN {Lower(Remove(node_type, <<"n", "8", "n", "-", "n", "o", "d", "e", "s", "-", "b", "a", "s", "e", ".">>))}
    ELSE IF StartsWith(node_type, <<"@", "n", "8", "n", "/">>) /\ IsIn(".", node_type)
    THEN {Lower(LastPart(node_type, "."))}
    ELSE {}

\* an analysis that fails on an empty node list
AnalyzeNodesRaises_Empty(nodes) == nodes = <<>>

\* the loop body calls node_type.lower(): a type that is null raises
AnalyzeNodesRaises(nodes) == \E i \in 1..Len(nodes) : NodeType(nodes[i]) = Null

AnalyzeNodes(nodes) ==
    LET node_types == {NodeType(nodes[i]) : i \in 1..Len(nodes)}
        integrations == UNION {Integration(NodeType(nodes[i])) : i \in 1..Len(nodes)}
        credential_types ==
            UNION {{Lower(c) : c \in Range(Get(nodes[i], "credentials", <<>>))} :
                     i \in 1..Len(nodes)}
    IN  [integrations |-> Sorted(integrations),
         node_types |-> Sorted(node_types),
         has_webhook |-> \E t \in node_types : Contains(Lower(t), <<"w", "e", "b", "h", "o", "o", "k">>),
         has_schedule |-> \E t \in node_types :
                            Contains(Lower(t), <<"s", "c", "h", "e", "d", "u", "l", "e">>) \/ Contains(Lower(t), <<"c", "r", "o", "n">>),
         has_local_ai |-> \E t \in node_types : t \in LOCAL_AI_NODES,
         credential_types |-> Sorted(credential_types)]

\* a classification by the exact service name
IsLocal_Exact(cred_type) == cred_type \in LOCAL_SERVICES

\* any(svc in cred_type for svc in LOCAL_SERVICES)
IsLocal(cred_type) == \E svc \in LOCAL_SERVICES : Contains(cred_type, svc)

ExtractRequirements(nodes, node_analysis) ==
    LET types == node_analysis.credential_types
    IN  [credentials |-> [i \in 1..Len(types) |-> Credential(types[i], IsLocal(types[i]))],
         services |-> Sorted({svc \in LOCAL_SERVICES :
                                \E c \in Range(types) : IsLocal(c) /\ Contains(c, svc)}),
         external_apis |-> Sorted({c \in Range(types) : ~IsLocal(c)}),
         min_n8n_version |-> Text("1.0.0")]

\* an analysis that never sees an external API
RequiresExternalApi_Never(requirements) == FALSE

RequiresExternalApi(requirements) == Len(requirements.external_apis) > 0

\* an analysis that never applies the service penalty
NoLocalService_Never(requirements) == FALSE

NoLocalService(requirements) == Len(requirements.services) = 0

\* the float score before rounding
Score(requirements, node_analysis) ==
    LET s1 == IF RequiresExternalApi(requirements) THEN FSub(F_1_0, F_0_3) ELSE F_1_0
        s2 == IF ~node_analysis.has_local_ai /\ RequiresExternalApi(requirements)
              THEN FSub(s1, F_0_3) ELSE s1
    IN  IF NoLocalService(requirements) THEN FSub(s2, F_0_2) ELSE s2

\* a status derivation that never answers requires_external
Status_NoExternal(score, requires_external_api) ==
    IF FGeq(score, F_0_8) THEN Text("fully_compatible")
    ELSE IF FGeq(score, F_0_5) THEN Text("partially_compatible")
    ELSE Text("incompatible")

Status(score, requires_external_api) ==
    IF FGeq(score, F_0_8) THEN Text("fully_compatible")
    ELSE IF FGeq(score, F_0_5) THEN Text("partially_compatible")
    ELSE IF requires_external_api THEN Text("requires_external")
    ELSE Text("incompatible")

\* compatibility_score is held in hundredths: n stands for the float nearest n/100
AnalyzeCompatibility(requirements, node_analysis) ==
    LET score == Score(requirements, node_analysis)
    IN  [local_ai |-> node_analysis.has_local_ai,
         requires_external_api |-> RequiresExternalApi(requirements),
         works_offline |-> ~RequiresExternalApi(requirements),
         pozi_compatible |-> FGeq(score, F_0_5),
         status |-> Status(score, RequiresExternalApi(requirements)),
         compatibility_score |-> Round2(score)]

\* f"{name} {description or ''}".lower(); a name that is None formats as 'None'
TextOf(name, description) ==
    Lower((IF name = Null THEN <<"N", "o", "n", "e">> ELSE name) \o <<" ">>
          \o (IF description = Null THEN <<>> ELSE description))

\* a keyword test that never matches
AnyIn_Never(terms, text) == FALSE

\* any(term in text for term in terms)
AnyIn(terms, text) == \E i \in 1..Len(terms) : Contains(text, terms[i])

CategorizeWorkflow(name, description, node_analysis) ==
    LET text == TextOf(name, description)
        integrations == Range(node_analysis.integrations)
    IN  IF AnyIn(<<<<"a", "i">>, <<"r", "a", "g">>, <<"l", "l", "m">>, <<"g", "p", "t">>, <<"a", "g", "e", "n", "t">>, <<"l", "a", "n", "g", "c", "h", "a", "i", "n">>>>, text)
        THEN IF Contains(text, <<"r", "a", "g">>) \/ Contains(text, <<"r", "e", "t", "r", "i", "e", "v", "a", "l">>)
             THEN <<<<"A", "I", " ", "&", " ", "M", "a", "c", "h", "i", "n", "e", " ", "L", "e", "a", "r", "n", "i", "n", "g">>, <<"R", "A", "G", " ", "&", " ", "D", "o", "c", "u", "m", "e", "n", "t", " ", "P", "r", "o", "c", "e", "s", "s", "i", "n", "g">>>>
             ELSE IF Contains(text, <<"a", "g", "e", "n", "t">>)
             THEN <<<<"A", "I", " ", "&", " ", "M", "a", "c", "h", "i", "n", "e", " ", "L", "e", "a", "r", "n", "i", "n", "g">>, <<"A", "I", " ", "A", "g", "e", "n", "t", "s">>>>
             ELSE <<<<"A", "I", " ", "&", " ", "M", "a", "c", "h", "i", "n", "e", " ", "L", "e", "a", "r", "n", "i", "n", "g">>, <<"G", "e", "n", "e", "r", "a", "l", " ", "A", "I">>>>
        ELSE IF \E svc \in {<<"g", "m", "a", "i", "l">>, <<"e", "m", "a", "i", "l">>, <<"s", "l", "a", "c", "k">>, <<"t", "e", "l", "e", "g", "r", "a", "m">>, <<"d", "i", "s", "c", "o", "r", "d">>, <<"w", "h", "a", "t", "s", "a", "p", "p">>} :
                    svc \in integrations
        THEN IF <<"g", "m", "a", "i", "l">> \in integrations \/ Contains(text, <<"e", "m", "a", "i", "l">>)
             THEN <<<<"C", "o", "m", "m", "u", "n", "i", "c", "a", "t", "i", "o", "n", " ", "&", " ", "M", "e", "s", "s", "a", "g", "i", "n", "g">>, <<"E", "m", "a", "i", "l">>>>
             ELSE IF <<"s", "l", "a", "c", "k">> \in integrations
             THEN <<<<"C", "o", "m", "m", "u", "n", "i", "c", "a", "t", "i", "o", "n", " ", "&", " ", "M", "e", "s", "s", "a", "g", "i", "n", "g">>, <<"S", "l", "a", "c", "k">>>>
             ELSE IF <<"t", "e", "l", "e", "g", "r", "a", "m">> \in integrations
             THEN <<<<"C", "o", "m", "m", "u", "n", "i", "c", "a", "t", "i", "o", "n", " ", "&", " ", "M", "e", "s", "s", "a", "g", "i", "n", "g">>, <<"T", "e", "l", "e", "g", "r", "a", "m">>>>
             ELSE <<<<"C", "o", "m", "m", "u", "n", "i", "c", "a", "t", "i", "o", "n", " ", "&", " ", "M", "e", "s", "s", "a", "g", "i", "n", "g">>, <<"G", "e", "n", "e", "r", "a", "l">>>>
        ELSE IF AnyIn(<<<<"d", "a", "t", "a">>, <<"a", "n", "a", "l", "y", "t", "i", "c", "s">>, <<"d", "a", "t", "a", "b", "a", "s", "e">>, <<"s", "q", "l">>, <<"e", "t", "l">>>>, text)
        THEN <<<<"D", "a", "t", "a", " ", "&", " ", "A", "n", "a", "l", "y", "t", "i", "c", "s">>, <<"D", "a", "t", "a", " ", "P", "r", "o", "c", "e", "s", "s", "i", "n", "g">>>>
        ELSE IF AnyIn(<<<<"b", "u", "s", "i", "n", "e", "s", "s">>, <<"p", "r", "o", "d", "u", "c", "t", "i", "v", "i", "t", "y">>, <<"a", "u", "t", "o", "m", "a", "t", "i", "o", "n">>, <<"w", "o", "r", "k", "f", "l", "o", "w">>>>, text)
        THEN <<<<"B", "u", "s", "i", "n", "e", "s", "s", " ", "&", " ", "P", "r", "o", "d", "u", "c", "t", "i", "v", "i", "t", "y">>, <<"A", "u", "t", "o", "m", "a", "t", "i", "o", "n">>>>
        ELSE <<<<"U", "t", "i", "l", "i", "t", "i", "e", "s", " ", "&", " ", "T", "o", "o", "l", "s">>, <<"G", "e", "n", "e", "r", "a", "l">>>>

\* a difficulty with the first threshold exclusive
DetermineDifficulty_Strict(node_analysis) ==
    LET node_count == Len(node_analysis.node_types)
    IN  IF node_count < 5 THEN Text("beginner")
        ELSE IF node_count <= 15 THEN Text("intermediate")
        ELSE Text("advanced")

DetermineDifficulty(node_analysis) ==
    LET node_count == Len(node_analysis.node_types)
    IN  IF node_count <= 5 THEN Text("beginner")
        ELSE IF node_count <= 15 THEN Text("intermediate")
        ELSE Text("advanced")

EstimateRuntime(node_analysis) ==
    LET node_count == Len(node_analysis.node_types)
    IN  IF node_count <= 5 THEN Text("< 1 minute")
        ELSE IF node_count <= 15 THEN Text("1-5 minutes")
        ELSE Text("5+ minutes")

tag_keywords ==
    <<[tag |-> <<"a", "i">>, keywords |-> <<<<"a", "i">>, <<"a", "r", "t", "i", "f", "i", "c", "i", "a", "l", " ", "i", "n", "t", "e", "l", "l", "i", "g", "e", "n", "c", "e">>, <<"m", "a", "c", "h", "i", "n", "e", " ", "l", "e", "a", "r", "n", "i", "n", "g">>>>],
      [tag |-> <<"r", "a", "g">>, keywords |-> <<<<"r", "a", "g">>, <<"r", "e", "t", "r", "i", "e", "v", "a", "l">>, <<"a", "u", "g", "m", "e", "n", "t", "e", "d", " ", "g", "e", "n", "e", "r", "a", "t", "i", "o", "n">>>>],
      [tag |-> <<"a", "u", "t", "o", "m", "a", "t", "i", "o", "n">>, keywords |-> <<<<"a", "u", "t", "o", "m", "a", "t", "i", "o", "n">>, <<"a", "u", "t", "o", "m", "a", "t", "e">>, <<"a", "u", "t", "o", "m", "a", "t", "i", "c">>>>],
      [tag |-> <<"e", "m", "a", "i", "l">>, keywords |-> <<<<"e", "m", "a", "i", "l">>, <<"g", "m", "a", "i", "l">>, <<"m", "a", "i", "l">>>>],
      [tag |-> <<"c", "h", "a", "t">>, keywords |-> <<<<"c", "h", "a", "t">>, <<"m", "e", "s", "s", "a", "g", "i", "n", "g">>, <<"c", "o", "n", "v", "e", "r", "s", "a", "t", "i", "o", "n">>>>],
      [tag |-> <<"d", "o", "c", "u", "m", "e", "n", "t">>, keywords |-> <<<<"d", "o", "c", "u", "m", "e", "n", "t">>, <<"p", "d", "f">>, <<"f", "i", "l", "e">>>>],
      [tag |-> <<"d", "a", "t", "a">>, keywords |-> <<<<"d", "a", "t", "a">>, <<"d", "a", "t", "a", "b", "a", "s", "e">>, <<"s", "q", "l">>>>],
      [tag |-> <<"l", "o", "c", "a", "l">>, keywords |-> <<<<"l", "o", "c", "a", "l">>, <<"o", "f", "f", "l", "i", "n", "e">>, <<"s", "e", "l", "f", "-", "h", "o", "s", "t", "e", "d">>>>]>>

\* an embedded tag: a dict (its 'name', '' when absent) or a string
TagName(tag) == IF tag.dict THEN Get(tag, "name", <<>>) ELSE tag.str

KeywordTags(text) ==
    {tag_keywords[i].tag : i \in {j \in 1..Len(tag_keywords) :
                                    AnyIn(tag_keywords[j].keywords, text)}}

\* the set tags: embedded tags, keyword tags, the first 5 integrations
TagSet(workflow_data, name, description, node_analysis) ==
    LET existing_tags == Get(workflow_data, "tags", <<>>)
    IN  {TagName(existing_tags[i]) : i \in 1..Len(existing_tags)}
        \cup KeywordTags(TextOf(name, description))
        \cup Range(Take(node_analysis.integrations, 5))

\* the tag list without the cut to 10
ExtractTags_Uncut(workflow_data, name, description, node_analysis) ==
    Sorted(TagSet(workflow_data, name, description, node_analysis))

ExtractTags(workflow_data, name, description, node_analysis) ==
    Take(Sorted(TagSet(workflow_data, name, description, node_analysis)), 10)

DetermineDepartment(category, tags) ==
    IF Contains(category, <<"A", "I">>) THEN Text("Engineering")
    ELSE IF Contains(category, <<"C", "o", "m", "m", "u", "n", "i", "c", "a", "t", "i", "o", "n">>) THEN Text("Operations")
    ELSE IF Contains(category, <<"D", "a", "t", "a">>) THEN Text("Analytics")
    ELSE IF Contains(category, <<"B", "u", "s", "i", "n", "e", "s", "s">>) THEN Text("Executive")
    ELSE Null

use_case_patterns ==
    <<[use_case |-> <<"D", "o", "c", "u", "m", "e", "n", "t", " ", "Q", "&", "A">>, keywords |-> <<<<"d", "o", "c", "u", "m", "e", "n", "t">>, <<"q", "&", "a">>, <<"q", "u", "e", "s", "t", "i", "o", "n">>, <<"a", "n", "s", "w", "e", "r">>>>],
      [use_case |-> <<"E", "m", "a", "i", "l", " ", "A", "u", "t", "o", "m", "a", "t", "i", "o", "n">>, keywords |-> <<<<"e", "m", "a", "i", "l">>, <<"g", "m", "a", "i", "l">>, <<"a", "u", "t", "o", "m", "a", "t", "e">>, <<"r", "e", "s", "p", "o", "n", "d">>>>],
      [use_case |-> <<"D", "a", "t", "a", " ", "P", "r", "o", "c", "e", "s", "s", "i", "n", "g">>, keywords |-> <<<<"d", "a", "t", "a">>, <<"p", "r", "o", "c", "e", "s", "s">>, <<"t", "r", "a", "n", "s", "f", "o", "r", "m">>, <<"e", "t", "l">>>>],
      [use_case |-> <<"C", "h", "a", "t", " ", "B", "o", "t">>, keywords |-> <<<<"c", "h", "a", "t">>, <<"b", "o", "t">>, <<"c", "o", "n", "v", "e", "r", "s", "a", "t", "i", "o", "n">>, <<"a", "s", "s", "i", "s", "t", "a", "n", "t">>>>],
      [use_case |-> <<"C", "o", "n", "t", "e", "n", "t", " ", "G", "e", "n", "e", "r", "a", "t", "i", "o", "n">>, keywords |-> <<<<"g", "e", "n", "e", "r", "a", "t", "e">>, <<"c", "r", "e", "a", "t", "e">>, <<"c", "o", "n", "t", "e", "n", "t">>, <<"w", "r", "i", "t", "e">>>>],
      [use_case |-> <<"R", "e", "s", "e", "a", "r", "c", "h", " ", "A", "s", "s", "i", "s", "t", "a", "n", "t">>, keywords |-> <<<<"r", "e", "s", "e", "a", "r", "c", "h">>, <<"a", "n", "a", "l", "y", "z", "e">>, <<"s", "u", "m", "m", "a", "r", "i", "z", "e">>>>]>>

\* sum(1 for kw in keywords if kw in text)
KeywordHits(keywords, text) ==
    Cardinality({i \in 1..Len(keywords) : Contains(text, keywords[i])})

RECURSIVE MatchedUseCases(_, _)
\* the labels appended by the loop, from pattern i on
MatchedUseCases(text, i) ==
    IF i > Len(use_case_patterns) THEN <<>>
    ELSE (IF KeywordHits(use_case_patterns[i].keywords, text) >= 2
          THEN <<use_case_patterns[i].use_case>> ELSE <<>>)
         \o MatchedUseCases(text, i + 1)

\* the use cases without the cut to 3
ExtractUseCases_Uncut(name, description, category) ==
    MatchedUseCases(TextOf(name, description), 1)

ExtractUseCases(name, description, category) ==
    Take(MatchedUseCases(TextOf(name, description), 1), 3)

\* source_repo.split('/')[0] when it holds a '/'
ExtractAuthor(source_repo) ==
    IF IsIn("/", source_repo) THEN SubSeq(source_repo, 1, IndexOf("/", source_repo) - 1)
    ELSE source_repo

RECURSIVE FirstNote(_)
\* the first sticky note whose content is longer than 20, cut to 500
FirstNote(nodes) ==
    IF nodes = <<>> THEN Null
    ELSE LET content == Get(Head(nodes), "content", <<>>)
         IN  IF Get(Head(nodes), "type", Null) = <<"n", "8", "n", "-", "n", "o", "d", "e", "s", "-", "b", "a", "s", "e", ".", "s", "t", "i", "c", "k", "y", "N", "o", "t", "e">>
                /\ Len(content) > 20
             THEN Take(content, 500)
             ELSE FirstNote(Tail(nodes))

ExtractDescription(workflow_data) ==
    IF "description" \in DOMAIN workflow_data THEN workflow_data.description
    ELSE FirstNote(Get(workflow_data, "nodes", <<>>))

\* Path.stem: the last component without its last suffix
Stem(json_path) ==
    LET file == LastPart(json_path, "/")
        dots == {i \in 2..Len(file) : file[i] = "."}
        last == CHOOSE i \in dots : \A j \in dots : j <= i
    IN  IF dots # {} /\ file[Len(file)] # "." THEN SubSeq(file, 1, last - 1) ELSE file

\* the dict parse_workflow builds; t1 and t2 are the two readings of utcnow()
Workflow(workflow_data, json_path, source_repo, id, t1, t2) ==
    LET name == Get(workflow_data, "name", Stem(json_path))
        description == ExtractDescription(workflow_data)
        nodes == Get(workflow_data, "nodes", <<>>)
        node_analysis == AnalyzeNodes(nodes)
        category == CategorizeWorkflow(name, description, node_analysis)
        requirements == ExtractRequirements(nodes, node_analysis)
        tags == ExtractTags(workflow_data, name, description, node_analysis)
    IN  [id |-> id,
         name |-> name,
         description |-> description,
         category |-> category[1],
         subcategory |-> category[2],
         difficulty |-> DetermineDifficulty(node_analysis),
         author |-> ExtractAuthor(source_repo),
         source_repo |-> source_repo,
         source_url |-> Null,
         json_path |-> json_path,
         tags |-> tags,
         department |-> DetermineDepartment(category[1], tags),
         use_cases |-> ExtractUseCases(name, description, category[1]),
         metadata |->
            [node_count |-> Len(nodes),
             integrations |-> node_analysis.integrations,
             node_types |-> node_analysis.node_types,
             has_webhook |-> node_analysis.has_webhook,
             has_schedule |-> node_analysis.has_schedule,
             estimated_runtime |-> EstimateRuntime(node_analysis)],
         requirements |-> requirements,
         compatibility |-> AnalyzeCompatibility(requirements, node_analysis),
         stats |->
            [popularity_score |-> 0, import_count |-> 0, success_rate |-> 0,
             avg_setup_time |-> Null],
         created_at |-> IsoFormat(t1),
         updated_at |-> IsoFormat(t2),
         last_synced |-> Null]

-----------------------------------------------------------------------------
(* Inputs of the parser: workflow files *)

MaxTypes == 16      \* node lists with 0..MaxTypes distinct node types are explored

Node(type, credentials) == [type |-> type, credentials |-> credentials]

\* k nodes of k distinct types, then `again` more nodes of the first type
PoolNodes(k, again) ==
    [i \in 1..(k + again) |->
        LET t == IF i <= k THEN i ELSE 1
        IN  Node(<<"n", "8", "n", "-", "n", "o", "d", "e", "s", "-", "b", "a", "s", "e", ".">> \o <<Lowercase[t], Uppercase[t]>>, <<>>)]

\* one node, with and without local AI, with each mix of credentials
CredentialNodes ==
    {<<Node(t, c)>> :
        t \in {<<"@", "n", "8", "n", "/", "n", "8", "n", "-", "n", "o", "d", "e", "s", "-", "l", "a", "n", "g", "c", "h", "a", "i", "n", ".", "a", "g", "e", "n", "t">>, <<"n", "8", "n", "-", "n", "o", "d", "e", "s", "-", "b", "a", "s", "e", ".", "h", "t", "t", "p", "R", "e", "q", "u", "e", "s", "t">>},
        c \in {<<>>, <<<<"o", "p", "e", "n", "A", "i", "A", "p", "i">>>>, <<<<"o", "l", "l", "a", "m", "a", "A", "p", "i">>>>, <<<<"o", "p", "e", "n", "A", "i", "A", "p", "i">>, <<"p", "o", "s", "t", "g", "r", "e", "s">>>>}}

\* repeated types and credential kinds in mixed case, a node without a type;
\* a sticky note; credentials naming a local and an external service; a type
\* that is null
OtherNodes ==
    {<<Node(<<"n", "8", "n", "-", "n", "o", "d", "e", "s", "-", "b", "a", "s", "e", ".", "h", "t", "t", "p", "R", "e", "q", "u", "e", "s", "t">>, <<<<"o", "p", "e", "n", "A", "i", "A", "p", "i">>>>),
       Node(<<"n", "8", "n", "-", "n", "o", "d", "e", "s", "-", "b", "a", "s", "e", ".", "H", "t", "t", "p", "R", "e", "q", "u", "e", "s", "t">>, <<<<"O", "p", "e", "n", "A", "I", "A", "p", "i">>>>),
       Node(<<"n", "8", "n", "-", "n", "o", "d", "e", "s", "-", "b", "a", "s", "e", ".", "h", "t", "t", "p", "R", "e", "q", "u", "e", "s", "t">>, <<>>),
       Node(<<"@", "n", "8", "n", "/", "n", "8", "n", "-", "n", "o", "d", "e", "s", "-", "l", "a", "n", "g", "c", "h", "a", "i", "n", ".", "l", "m", "C", "h", "a", "t", "O", "l", "l", "a", "m", "a">>, <<<<"o", "l", "l", "a", "m", "a", "A", "p", "i">>>>),
       Node(<<"n", "8", "n", "-", "n", "o", "d", "e", "s", "-", "b", "a", "s", "e", ".", "w", "e", "b", "h", "o", "o", "k">>, <<>>), [credentials |-> <<>>]>>,
     <<[type |-> <<"n", "8", "n", "-", "n", "o", "d", "e", "s", "-", "b", "a", "s", "e", ".", "s", "t", "i", "c", "k", "y", "N", "o", "t", "e">>, content |-> <<"R", "e", "s", "p", "o", "n", "d", " ", "t", "o", " ", "g", "m", "a", "i", "l", " ", "a", "n", "d", " ", "p", "r", "o", "c", "e", "s", "s">>],
       Node(<<"n", "8", "n", "-", "n", "o", "d", "e", "s", "-", "b", "a", "s", "e", ".", "s", "c", "h", "e", "d", "u", "l", "e", "T", "r", "i", "g", "g", "e", "r">>, <<>>)>>,
     <<Node(<<"n", "8", "n", "-", "n", "o", "d", "e", "s", "-", "b", "a", "s", "e", ".", "g", "m", "a", "i", "l">>, <<>>), Node(<<"c", "u", "s", "t", "o", "m", ".", "n", "o", "d", "e">>, <<<<"r", "e", "d", "i", "s", "A", "p", "i">>, <<"s", "l", "a", "c", "k", "A", "p", "i">>>>)>>,
     <<Node(<<"n", "8", "n", "-", "n", "o", "d", "e", "s", "-", "b", "a", "s", "e", ".", "h", "t", "t", "p", "R", "e", "q", "u", "e", "s", "t">>, <<>>), [type |-> Null]>>}

\* the decoded files with these contents, each optional key present or not
Files(names, descriptions, nodes, tags, keys) ==
    {[k \in {"nodes"} \cup present |-> full[k]] :
        full \in [name : names, description : descriptions, nodes : nodes, tags : tags],
        present \in keys}

\* the decoded content of the workflow files; the embedded tags are two
\* dicts with a name, a string and a dict without a name
WorkflowFiles ==
    LET NameFull == <<"A", "I", " ", "R", "A", "G", " ", "e", "m", "a", "i", "l", " ", "c", "h", "a", "t", " ", "d", "a", "t", "a">>
        NameMail == <<"G", "m", "a", "i", "l", " ", "E", "m", "a", "i", "l">>
        DescFull == <<"A", "u", "t", "o", "m", "a", "t", "e", " ", "l", "o", "c", "a", "l", " ", "d", "o", "c", "u", "m", "e", "n", "t", " ", "q", "u", "e", "s", "t", "i", "o", "n", " ", "b", "o", "t", " ", "p", "r", "o", "c", "e", "s", "s", " ", "g", "m", "a", "i", "l">>
        TagsMany == <<[dict |-> TRUE, name |-> <<"Z", "e", "t", "a">>], [dict |-> FALSE, str |-> <<"a", "i">>],
                      [dict |-> TRUE], [dict |-> TRUE, name |-> <<"A", "I">>]>>
    IN  Files({NameFull}, {Null},
              {PoolNodes(k, again) : k \in 0..MaxTypes, again \in {0, 1}},
              {TagsMany}, {{}, {"name", "description"}})
        \cup Files({NameFull, NameMail}, {DescFull}, CredentialNodes, {TagsMany},
                   {{}, {"name", "description"}})
        \cup Files({NameFull, NameMail}, {DescFull, Null}, OtherNodes, {TagsMany},
                   SUBSET {"name", "description", "tags"})
        \cup Files({<<"D", "a", "t", "a", "b", "a", "s", "e", " ", "w", "o", "r", "k", "f", "l", "o", "w">>, <<"W", "o", "r", "k", "f", "l", "o", "w">>, <<"S", "y", "n", "c">>}, {Null},
                   {<<>>, <<Node(<<"n", "8", "n", "-", "n", "o", "d", "e", "s", "-", "b", "a", "s", "e", ".", "s", "l", "a", "c", "k">>, <<>>)>>}, {TagsMany}, {{"name"}})
        \cup {[name |-> NameMail]}

\* the identifiers uuid4() may draw
Uuids == {Text("w1"), Text("w2")}

-----------------------------------------------------------------------------
(* parse_workflow as an operation *)

\* any exception is caught and None is returned: ret.raised
ParseWorkflow(workflow_data) ==
    /\ ret.op = "idle"
    /\ IF AnalyzeNodesRaises(Get(workflow_data, "nodes", <<>>))
       THEN /\ ret' = Raised("parse_workflow", workflow_data)
            /\ UNCHANGED clock
       ELSE \E id \in Uuids, t2 \in clock..Min(clock + 1, MaxClock) :
            /\ ret' = Returned("parse_workflow", workflow_data,
                               Workflow(workflow_data, <<"w", "f", "/", "S", "l", "a", "c", "k", " ", "B", "o", "t", ".", "j", "s", "o", "n">>,
                                        <<"Z", "i", "e", "6", "1", "9", "/", "n", "8", "n", "-", "w", "o", "r", "k", "f", "l", "o", "w", "s">>, id, clock, t2))
            /\ clock' = t2
    /\ UNCHANGED <<schema, workflows, workflows_fts>>

ParserNext ==
    \/ \E workflow_data \in WorkflowFiles : ParseWorkflow(workflow_data)
    \/ Return

ParserSpec == Init /\ [][ParserNext]_vars

-----------------------------------------------------------------------------
(* The records parse_workflow produces *)

\* parse_workflow has returned a record
Parsed == ret.op = "parse_workflow" /\ ~ret.raised

\* s[1] < s[2] < ... in str order: sorted ascending, no duplicates
StrictlyAscending(s) == \A i \in 1..(Len(s) - 1) : StrLess(s[i], s[i + 1])

\* the credential kinds of a record, in the order of the FeatureSet
CredentialTypes(r) ==
    [i \in 1..Len(r.requirements.credentials) |-> r.requirements.credentials[i].type]

\* C11: the compatibility_score of every parsed record lies in [0, 1]
\* (scores are held in hundredths).
C11_ScoreInUnitInterval ==
    Parsed => ret.result.compatibility.compatibility_score \in 0..100

\* both extremes of the score have been produced: here the lowest, 0.2, for a
\* workflow with an external credential, no local AI and no local service
C11_Witness ==
    /\ Parsed
    /\ ret.result.compatibility.compatibility_score = 20
    /\ ~ret.result.compatibility.local_ai
    /\ Len(ret.result.requirements.external_apis) > 0

\* C12: pozi_compatible is true exactly when the record's compatibility_score
\* is at least 0.5.
C12_PoziIffScore ==
    Parsed => (ret.result.compatibility.pozi_compatible
                <=> ret.result.compatibility.compatibility_score >= 50)

\* the status the derivation gives for a score in hundredths
DerivedStatus(score, requires_external_api) ==
    IF score >= 80 THEN Text("fully_compatible")
    ELSE IF score >= 50 THEN Text("partially_compatible")
    ELSE IF requires_external_api THEN Text("requires_external")
    ELSE Text("incompatible")

\* C13: status is the top-down derivation applied to the record's
\* compatibility_score and requires_external_api.
C13_StatusFromScore ==
    Parsed => ret.result.compatibility.status =
                DerivedStatus(ret.result.compatibility.compatibility_score,
                              ret.result.compatibility.requires_external_api)

\* one credential, external only, and no local-AI node
OneExternalCredential ==
    /\ Parsed
    /\ Len(ret.result.requirements.credentials) = 1
    /\ ~ret.result.requirements.credentials[1].local
    /\ ~ret.result.compatibility.local_ai

\* C14 as stated: such a workflow gets score 0.4, status requires_external and
\* pozi_compatible false.
C14_ScorePointFour ==
    OneExternalCredential =>
        /\ ret.result.compatibility.compatibility_score = 40
        /\ ret.result.compatibility.status = Text("requires_external")
        /\ ~ret.result.compatibility.pozi_compatible

\* C14: one external-only credential and no local-AI node leave no local
\* service either, so the score is 1.0 - 0.3 - 0.3 - 0.2 = 0.2, with status
\* requires_external and pozi_compatible false.
C14_ScorePointTwo ==
    OneExternalCredential =>
        /\ ret.result.compatibility.compatibility_score = 20
        /\ ret.result.compatibility.status = Text("requires_external")
        /\ ~ret.result.compatibility.pozi_compatible

C14_Witness ==
    /\ OneExternalCredential
    /\ ret.result.requirements.external_apis = <<<<"o", "p", "e", "n", "a", "i", "a", "p", "i">>>>
    /\ ret.result.requirements.services = <<>>

\* C15: the score is 1.0 minus 0.3 if an external API is required, minus a
\* further 0.3 if local AI is absent and an external API is required, minus
\* 0.2 if no local service is present; with zero credentials it is 0.8, the
\* status fully_compatible, pozi_compatible and works_offline true.
C15_ScoreFormula ==
    Parsed =>
        LET r == ret.result
            external == Len(r.requirements.external_apis) > 0
            local_ai == r.compatibility.local_ai
            no_service == Len(r.requirements.services) = 0
        IN  /\ r.compatibility.compatibility_score =
                  100 - (IF external THEN 30 ELSE 0)
                      - (IF ~local_ai /\ external THEN 30 ELSE 0)
                      - (IF no_service THEN 20 ELSE 0)
            /\ Len(r.requirements.credentials) = 0 =>
                  /\ r.compatibility.compatibility_score = 80
                  /\ r.compatibility.status = Text("fully_compatible")
                  /\ r.compatibility.pozi_compatible
                  /\ r.compatibility.works_offline

\* a workflow with nodes and no credential at all has been parsed
C15_Witness ==
    /\ Parsed
    /\ ret.result.metadata.node_count > 0
    /\ Len(ret.result.requirements.credentials) = 0
    /\ ret.result.compatibility.compatibility_score = 80

\* C16: integrations, node_types and credential_types are each sorted
\* ascending by string and free of duplicates.
C16_FeatureSetsSorted ==
    Parsed =>
        /\ StrictlyAscending(ret.result.metadata.integrations)
        /\ StrictlyAscending(ret.result.metadata.node_types)
        /\ StrictlyAscending(CredentialTypes(ret.result))

\* a node list with repeated node types, repeated credential kinds and mixed
\* letter case has been parsed
C16_Witness ==
    /\ Parsed
    /\ ret.result.metadata.node_count > Len(ret.result.metadata.node_types)
    /\ Len(ret.result.metadata.node_types) > Len(ret.result.metadata.integrations)
    /\ Len(ret.result.metadata.integrations) >= 2
    /\ Len(ret.result.requirements.credentials) >= 2
    /\ \E i \in 1..Len(Get(ret.call, "nodes", <<>>)) :
          Len(Get(ret.call.nodes[i], "credentials", <<>>)) > 0
          /\ Lower(ret.call.nodes[i].credentials[1]) # ret.call.nodes[i].credentials[1]

\* C17: every element of integrations, node_types and credential_types is
\* lower-cased.
C17_AllLowerCase ==
    Parsed =>
        \A e \in Range(ret.result.metadata.integrations)
                 \cup Range(ret.result.metadata.node_types)
                 \cup Range(CredentialTypes(ret.result)) : Lower(e) = e

\* C18: difficulty and the runtime estimate are functions of the number n of
\* distinct node types alone: n <= 5 beginner and "< 1 minute", 5 < n <= 15
\* intermediate and "1-5 minutes", n > 15 advanced and "5+ minutes".
C18_DifficultyByDistinctTypes ==
    Parsed =>
        LET nodes == Get(ret.call, "nodes", <<>>)
            n == Cardinality({NodeType(nodes[i]) : i \in 1..Len(nodes)})
        IN  /\ n <= 5 => /\ ret.result.difficulty = Text("beginner")
                         /\ ret.result.metadata.estimated_runtime = Text("< 1 minute")
            /\ (5 < n /\ n <= 15) =>
                         /\ ret.result.difficulty = Text("intermediate")
                         /\ ret.result.metadata.estimated_runtime = Text("1-5 minutes")
            /\ n > 15 => /\ ret.result.difficulty = Text("advanced")
                         /\ ret.result.metadata.estimated_runtime = Text("5+ minutes")

\* five distinct types among six nodes, with a name and embedded tags: still
\* beginner
C18_Witness ==
    /\ Parsed
    /\ ret.result.metadata.node_count = 6
    /\ Len(ret.result.metadata.node_types) = 5
    /\ ret.result.difficulty = Text("beginner")

\* the union the tag list is cut from, recomputed from the file and the record
TagUnion ==
    {TagName(Get(ret.call, "tags", <<>>)[i]) : i \in 1..Len(Get(ret.call, "tags", <<>>))}
    \cup KeywordTags(TextOf(ret.result.name, ret.result.description))
    \cup {ret.result.metadata.integrations[i] :
            i \in 1..Min(5, Len(ret.result.metadata.integrations))}

\* C19: the tag list is duplicate-free, sorted ascending, at most 10 long, and
\* is the first 10 elements of the sorted union of embedded tags, matched
\* keyword-group tags and the first 5 integration names.
C19_TagsSortedCapped ==
    Parsed =>
        LET tags == ret.result.tags
        IN  /\ StrictlyAscending(tags)
            /\ Len(tags) = Min(10, Cardinality(TagUnion))
            /\ Range(tags) \subseteq TagUnion
            /\ \A t \in TagUnion \ Range(tags), u \in Range(tags) : StrLess(u, t)

\* more than 10 candidate tags, of all three origins, were cut to 10
C19_Witness ==
    /\ Parsed
    /\ Cardinality(TagUnion) > 10
    /\ Len(ret.result.tags) = 10
    /\ "tags" \in DOMAIN ret.call
    /\ Len(ret.result.metadata.integrations) >= 3

\* the groups with at least 2 keywords in the lower-cased name+description
MatchedGroups ==
    {i \in 1..Len(use_case_patterns) :
        KeywordHits(use_case_patterns[i].keywords,
                    TextOf(ret.result.name, ret.result.description)) >= 2}

\* C20: the use-case list holds the labels of the first 3 groups, in
\* declaration order, that have at least 2 keywords in the lower-cased
\* name+description text; its length never exceeds 3.
C20_UseCasesFirstThree ==
    Parsed =>
        LET use_cases == ret.result.use_cases
        IN  /\ Len(use_cases) = Min(3, Cardinality(MatchedGroups))
            /\ \A k \in 1..Len(use_cases) :
                  \E i \in MatchedGroups :
                      /\ Cardinality({j \in MatchedGroups : j < i}) = k - 1
                      /\ use_cases[k] = use_case_patterns[i].use_case

\* four groups match and the list holds the first three
C20_Witness ==
    /\ Parsed
    /\ Cardinality(MatchedGroups) > 3
    /\ ret.result.use_cases = <<<<"D", "o", "c", "u", "m", "e", "n", "t", " ", "Q", "&", "A">>, <<"E", "m", "a", "i", "l", " ", "A", "u", "t", "o", "m", "a", "t", "i", "o", "n">>, <<"D", "a", "t", "a", " ", "P", "r", "o", "c", "e", "s", "s", "i", "n", "g">>>>

C22_CreatedEqualsUpdated ==
    Parsed =>
        /\ ret.result.created_at = ret.result.updated_at
        /\ ret.result.last_synced = Null
        /\ ret.result.stats = [popularity_score |-> 0, import_count |-> 0,
                               success_rate |-> 0, avg_setup_time |-> Null]

\* C24: the category is that of the first matching group in the order AI/ML
\* keywords, communication integrations, data/analytics keywords,
\* business/productivity keywords, and otherwise the default pair
\* ("Utilities & Tools", "General"); it depends only on name, description
\* and integrations.
C24_CategoryPriority ==
    Parsed =>
        LET text == TextOf(ret.result.name, ret.result.description)
            has(terms) == \E t \in terms : Contains(text, t)
            ai == has({<<"a", "i">>, <<"r", "a", "g">>, <<"l", "l", "m">>, <<"g", "p", "t">>, <<"a", "g", "e", "n", "t">>, <<"l", "a", "n", "g", "c", "h", "a", "i", "n">>})
            comm == \E i \in 1..Len(ret.result.metadata.integrations) :
                        ret.result.metadata.integrations[i] \in
                            {<<"g", "m", "a", "i", "l">>, <<"e", "m", "a", "i", "l">>, <<"s", "l", "a", "c", "k">>, <<"t", "e", "l", "e", "g", "r", "a", "m">>, <<"d", "i", "s", "c", "o", "r", "d">>, <<"w", "h", "a", "t", "s", "a", "p", "p">>}
            data == has({<<"d", "a", "t", "a">>, <<"a", "n", "a", "l", "y", "t", "i", "c", "s">>, <<"d", "a", "t", "a", "b", "a", "s", "e">>, <<"s", "q", "l">>, <<"e", "t", "l">>})
            business == has({<<"b", "u", "s", "i", "n", "e", "s", "s">>, <<"p", "r", "o", "d", "u", "c", "t", "i", "v", "i", "t", "y">>, <<"a", "u", "t", "o", "m", "a", "t", "i", "o", "n">>, <<"w", "o", "r", "k", "f", "l", "o", "w">>})
        IN  /\ ret.result.category =
                  (IF ai THEN <<"A", "I", " ", "&", " ", "M", "a", "c", "h", "i", "n", "e", " ", "L", "e", "a", "r", "n", "i", "n", "g">>
                   ELSE IF comm THEN <<"C", "o", "m", "m", "u", "n", "i", "c", "a", "t", "i", "o", "n", " ", "&", " ", "M", "e", "s", "s", "a", "g", "i", "n", "g">>
                   ELSE IF data THEN <<"D", "a", "t", "a", " ", "&", " ", "A", "n", "a", "l", "y", "t", "i", "c", "s">>
                   ELSE IF business THEN <<"B", "u", "s", "i", "n", "e", "s", "s", " ", "&", " ", "P", "r", "o", "d", "u", "c", "t", "i", "v", "i", "t", "y">>
                   ELSE <<"U", "t", "i", "l", "i", "t", "i", "e", "s", " ", "&", " ", "T", "o", "o", "l", "s">>)
            /\ (~ai /\ ~comm /\ ~data /\ ~business) => ret.result.subcategory = <<"G", "e", "n", "e", "r", "a", "l">>

\* a workflow with a communication integration whose text also names data
\* and a workflow keyword got the communication category
C24_Witness ==
    /\ Parsed
    /\ ret.result.name = <<"D", "a", "t", "a", "b", "a", "s", "e", " ", "w", "o", "r", "k", "f", "l", "o", "w">>
    /\ ret.result.metadata.integrations = <<<<"s", "l", "a", "c", "k">>>>
    /\ ret.result.category = <<"C", "o", "m", "m", "u", "n", "i", "c", "a", "t", "i", "o", "n", " ", "&", " ", "M", "e", "s", "s", "a", "g", "i", "n", "g">>

\* C25: a credential is local iff its type contains a known local-service
\* name; external_apis is the sorted set of the types that are not local;
\* services is the sorted set of local-service names occurring in some
\* credential type; requires_external_api holds iff external_apis is
\* non-empty and works_offline is its negation.
C25_RequirementsPartition ==
    Parsed =>
        LET req == ret.result.requirements
            types == Range(CredentialTypes(ret.result))
            names(type) == {svc \in LOCAL_SERVICES : Contains(type, svc)}
        IN  /\ \A i \in 1..Len(req.credentials) :
                  req.credentials[i].local <=> names(req.credentials[i].type) # {}
            /\ StrictlyAscending(req.external_apis)
            /\ Range(req.external_apis) = {t \in types : names(t) = {}}
            /\ StrictlyAscending(req.services)
            /\ Range(req.services) = UNION {names(t) : t \in types}
            /\ ret.result.compatibility.requires_external_api <=> req.external_apis # <<>>
            /\ ret.result.compatibility.works_offline
                  <=> ~ret.result.compatibility.requires_external_api

\* credentials of both kinds, the local one named by a substring of its type
C25_Witness ==
    /\ Parsed
    /\ ret.result.requirements.services = <<<<"r", "e", "d", "i", "s">>>>
    /\ ret.result.requirements.external_apis = <<<<"s", "l", "a", "c", "k", "a", "p", "i">>>>
    /\ ret.result.requirements.credentials[1].local
    /\ ret.result.requirements.credentials[1].type = <<"r", "e", "d", "i", "s", "a", "p", "i">>

\* C27: the status incompatible is never produced: a score below 0.5 occurs
\* only when an external API is required, every status is fully_compatible,
\* partially_compatible or requires_external, and the recorded score is one
\* of 1.0, 0.8, 0.7, 0.5, 0.4 and 0.2.
C27_NeverIncompatible ==
    Parsed =>
        LET compat == ret.result.compatibility
        IN  /\ compat.status \in {Text("fully_compatible"), Text("partially_compatible"),
                                  Text("requires_external")}
            /\ compat.compatibility_score < 50 => compat.requires_external_api
            /\ ~compat.pozi_compatible => compat.requires_external_api
            /\ compat.compatibility_score \in {100, 80, 70, 50, 40, 20}

\* a record whose score fell below 0.5 has status requires_external
C27_Witness ==
    /\ Parsed
    /\ ret.result.compatibility.compatibility_score = 40
    /\ ret.result.compatibility.status = Text("requires_external")

-----------------------------------------------------------------------------
(* The ingestion script (scripts/ingest_workflows.py main, with the loop   *)
(* of WorkflowIngestion.ingest_repo).  While the script runs, ret is its   *)
(* frame: the listed files, the index of the next one, the records made so *)
(* far and the counter stored_count.                                       *)

MaxFiles == 2       \* listings of 0..MaxFiles workflow files are explored

\* a listed file: what its content decodes to, whether it is already on disk,
\* and how its download ends (status 200, another status, or an exception)
FileKinds ==
    {[content |-> [name |-> <<"S", "y", "n", "c">>, nodes |-> <<>>], cached |-> c, download |-> d] :
        c \in BOOLEAN, d \in {"200", "404", "timeout"}}
    \cup {[content |-> w, cached |-> FALSE, download |-> "200"] :
            w \in {[name |-> <<"G", "m", "a", "i", "l", " ", "E", "m", "a", "i", "l">>, nodes |-> <<Node(<<"n", "8", "n", "-", "n", "o", "d", "e", "s", "-", "b", "a", "s", "e", ".", "g", "m", "a", "i", "l">>, <<>>)>>],
                   [name |-> Null, nodes |-> <<>>],
                   [name |-> <<"S", "y", "n", "c">>, nodes |-> <<[type |-> Null]>>]}}

\* the workflow files found in the repositories, in listing order
Listings == UNION {[1..n -> FileKinds] : n \in 0..MaxFiles}

\* a download that always succeeds
Saved_Always(file_info) == TRUE

\* the file is on disk: it was there already, or download_workflow returned True
Saved(file_info) == file_info.cached \/ file_info.download = "200"

\* main(): init_db, then the ingestion of the listed files begins
Main(files) ==
    /\ ret.op = "idle"
    /\ ~schema
    /\ schema' = TRUE
    /\ workflows' = CreateIfNotExists(schema, workflows, <<>>)
    /\ workflows_fts' = CreateIfNotExists(schema, workflows_fts, {})
    /\ ret' = [op |-> "main", pc |-> "ingest", files |-> files, i |-> 1,
               workflows |-> <<>>, stored_count |-> 0]
    /\ UNCHANGED clock

\* one turn of the download-and-parse loop, or its end
IngestStep ==
    /\ ret.op = "main" /\ ret.pc = "ingest"
    /\ IF ret.i > Len(ret.files)
       THEN /\ ret' = [ret EXCEPT !.pc = IF ret.workflows = <<>> THEN "done" ELSE "store",
                                  !.i = 1]
            /\ UNCHANGED clock
       ELSE LET file_info == ret.files[ret.i]
                used == {ret.workflows[k].id : k \in 1..Len(ret.workflows)}
                id == CHOOSE x \in Ids : x \notin used
            IN  IF ~Saved(file_info) \/ AnalyzeNodesRaises(file_info.content.nodes)
                THEN /\ ret' = [ret EXCEPT !.i = ret.i + 1]
                     /\ UNCHANGED clock
                ELSE \E t2 \in clock..Min(clock + 1, MaxClock) :
                     /\ ret' = [ret EXCEPT
                                  !.i = ret.i + 1,
                                  !.workflows = Append(ret.workflows,
                                      [Workflow(file_info.content, <<"w", "f", "/", "S", "l", "a", "c", "k", " ", "B", "o", "t", ".", "j", "s", "o", "n">>,
                                                <<"Z", "i", "e", "6", "1", "9", "/", "n", "8", "n", "-", "w", "o", "r", "k", "f", "l", "o", "w", "s">>, id, clock, t2)
                                       EXCEPT !.source_url = <<"u", Digits[ret.i + 1]>>])]
                     /\ clock' = t2
    /\ UNCHANGED <<schema, workflows, workflows_fts>>

\* one turn of the store loop, or its end; stored_count += 1 follows the
\* awaited insert whatever it returned
StoreStep ==
    /\ ret.op = "main" /\ ret.pc = "store"
    /\ IF ret.i > Len(ret.workflows)
       THEN /\ ret' = [ret EXCEPT !.pc = "done"]
            /\ UNCHANGED <<workflows, workflows_fts>>
       ELSE LET w == ret.workflows[ret.i]
            IN  /\ IF InsertOk(w)
                   THEN /\ workflows' = Append(workflows, RowOf(w))
                        /\ workflows_fts' =
                              Trigger_ai(workflows_fts, Len(workflows) + 1, RowOf(w))
                   ELSE UNCHANGED <<workflows, workflows_fts>>
                /\ ret' = [ret EXCEPT !.i = ret.i + 1,
                                      !.stored_count = ret.stored_count + 1]
    /\ UNCHANGED <<schema, clock>>

\* the listing call of the API: search_workflows(limit=limit, offset=0)
PopularCall == Call(Null, Null, Null, FALSE, NoTags, DefaultLimit, 0)

IngestNext ==
    \/ \E files \in Listings : Main(files)
    \/ IngestStep
    \/ StoreStep
    \/ \E id \in Ids, i \in StatValues, r \in StatValues : UpdateWorkflowStats(id, i, r)
    \/ SearchWorkflows(PopularCall)
    \/ (ret.op = "main" => ret.pc = "done") /\ Return

\* asyncio.run(main()) resumes the script after every await until it ends:
\* each loop is weakly fair.  A loop's turn is enabled exactly while the
\* script stands in that loop, so WF_vars(IngestStep) /\ WF_vars(StoreStep)
\* is written with the enabling condition spelled out.
IngestSpec ==
    /\ Init /\ [][IngestNext]_vars
    /\ []<>~(ret.op = "main" /\ ret.pc = "ingest") \/ []<><<IngestStep>>_vars
    /\ []<>~(ret.op = "main" /\ ret.pc = "store") \/ []<><<StoreStep>>_vars

-----------------------------------------------------------------------------
(* The ingestion script *)

\* the listed files, among the first n, that were fetched and hold a
\* workflow document
Kept(n) ==
    {k \in 1..n :
        /\ ret.files[k].cached \/ ret.files[k].download = "200"
        /\ \A j \in 1..Len(ret.files[k].content.nodes) :
              Get(ret.files[k].content.nodes[j], "type", <<>>) # Null}

\* the batch result holds one record per kept file among those handled so
\* far, in listing order
OneRecordPerKeptFile ==
    ret.op = "main" =>
        LET handled == IF ret.pc = "ingest" THEN ret.i - 1 ELSE Len(ret.files)
        IN  /\ Len(ret.workflows) = Cardinality(Kept(handled))
            /\ \A n \in 1..Len(ret.workflows) :
                  \E k \in Kept(handled) :
                      /\ Cardinality({j \in Kept(handled) : j < k}) = n - 1
                      /\ ret.workflows[n].source_url = <<"u", Digits[k + 1]>>
                      /\ ret.workflows[n].name = ret.files[k].content.name

\* C23: in a batch, a file whose download fails or whose content does not
\* parse is skipped and processing continues: the result holds exactly one
\* record for every other file, in listing order, and the batch always
\* reaches its end.
C23_BatchSkipsAndEnds ==
    /\ []OneRecordPerKeptFile
    /\ (ret.op = "main") ~> (ret.op = "main" /\ ret.pc # "ingest")

\* a batch whose first file timed out went on to its second file, which
\* is the one record of the result
C23_Witness ==
    /\ ret.op = "main" /\ ret.pc = "store"
    /\ Len(ret.files) = 2
    /\ ~ret.files[1].cached /\ ret.files[1].download = "timeout"
    /\ Len(ret.workflows) = 1
    /\ ret.workflows[1].source_url = <<"u", "2">>

\* C28: every stored record built by the Record Builder has popularity_score
\* 0 after any ingestion, insert and stat update, so search results and the
\* popular listing are ordered by name ascending only.
C28_PopularityZero ==
    /\ \A i \in 1..Len(workflows) : workflows[i].popularity_score = 0
    /\ SearchReturned =>
          \A k \in 1..(Len(ret.result) - 1) :
              StrLeq(ret.result[k].name, ret.result[k + 1].name)

\* two ingested records, one of them with updated stats, were listed
C28_Witness ==
    /\ SearchReturned
    /\ Len(ret.result) = 2
    /\ ret.result[1].name # ret.result[2].name
    /\ \E k \in 1..2 : ret.result[k].import_count = 5

\* C29: after the store loop, stored_count equals the number of workflows
\* whose insert returned success, which is the increase of the store's
\* record count (the store was empty when the script began).
C29_StoredCountIsInserted ==
    (ret.op = "main" /\ ret.pc = "done") => ret.stored_count = Len(workflows)

-----------------------------------------------------------------------------
(* Concurrent callers of the store.  Every operation of class Database     *)
(* opens a connection of its own and closes it when it ends; the file      *)
(* locks of SQLite are all that orders them.  A writer holds the write     *)
(* lock from its statement to its commit or to the closing of its          *)
(* connection, with the changed pages private to it; a SELECT holds a      *)
(* shared lock from execute to fetch, and a commit cannot proceed past it. *)
(* A statement that finds the lock taken when the busy timeout ends fails  *)
(* with sqlite3.OperationalError; one that is scheduled after the lock is  *)
(* released has waited.  While requests are served, ret holds one frame    *)
(* for each caller, and the writes that reported success in commit order.  *)

MaxCallers == 2     \* coroutines inside store operations at the same time

MaxWrites == 2      \* no write begins after MaxWrites writes have committed

\* startup_event: init_db, then requests are served
Startup ==
    /\ ret.op = "idle"
    /\ ~schema
    /\ schema' = TRUE
    /\ workflows' = CreateIfNotExists(schema, workflows, <<>>)
    /\ workflows_fts' = CreateIfNotExists(schema, workflows_fts, {})
    /\ ret' = [op |-> "serve", frames |-> [c \in 1..MaxCallers |-> [pc |-> "idle"]],
               history |-> <<>>]
    /\ UNCHANGED clock

\* async with aiosqlite.connect(self.db_path) as db: caller c enters an operation
Connect(c, op, call) ==
    /\ ret.op = "serve"
    /\ ret.frames[c].pc \in {"idle", "returned"}
    /\ op \in {"insert_workflow", "update_workflow_stats"} => Len(ret.history) < MaxWrites
    /\ ret' = [ret EXCEPT !.frames[c] = [pc |-> "connected", op |-> op, call |-> call]]
    /\ UNCHANGED <<schema, workflows, workflows_fts, clock>>

\* no connection ever finds the database locked
Locked_Never(c) == FALSE

\* another connection is inside a write transaction
Locked(c) == \E d \in DOMAIN ret.frames : d # c /\ ret.frames[d].pc = "executed"

\* await db.execute(INSERT ...) or await db.execute(UPDATE ...): the statement
\* and its triggers run on the caller's pages, or the call fails; insert_workflow
\* catches the failure and returns False, update_workflow_stats lets it out
Execute(c) ==
    /\ ret.op = "serve"
    /\ ret.frames[c].pc = "connected"
    /\ ret.frames[c].op \in {"insert_workflow", "update_workflow_stats"}
    /\ LET f == ret.frames[c]
           failed == [pc |-> "returned", op |-> f.op, call |-> f.call,
                      raised |-> f.op # "insert_workflow", result |-> FALSE]
       IN  IF f.op = "insert_workflow"
           THEN /\ ret' = [ret EXCEPT !.frames[c] =
                      IF ~Locked(c) /\ InsertOk(f.call)
                      THEN [pc |-> "executed", op |-> f.op, call |-> f.call, now |-> clock,
                            pages |-> [workflows |-> Append(workflows, RowOf(f.call)),
                                       workflows_fts |-> Trigger_ai(workflows_fts,
                                                            Len(workflows) + 1, RowOf(f.call))]]
                      ELSE failed]
                /\ UNCHANGED clock
           ELSE \E now \in clock..Min(clock + 1, MaxClock) :
                /\ clock' = now
                /\ ret' = [ret EXCEPT !.frames[c] =
                      IF ~Locked(c)
                      THEN LET table == UpdateWhereId(workflows, f.call[1], f.call[2],
                                                      f.call[3], now)
                           IN [pc |-> "executed", op |-> f.op, call |-> f.call, now |-> now,
                               pages |-> [workflows |-> table,
                                          workflows_fts |-> FireUpdateTriggers(workflows_fts,
                                                               table, f.call[1], 1)]]
                      ELSE failed]
    /\ UNCHANGED <<schema, workflows, workflows_fts>>

\* await db.commit(): the caller's pages become the database file and the call
\* reports success; while a SELECT of another connection is open the commit
\* fails and the closing of the connection rolls the transaction back
Commit(c) ==
    /\ ret.op = "serve"
    /\ ret.frames[c].pc = "executed"
    /\ LET f == ret.frames[c]
       IN  IF \E d \in DOMAIN ret.frames : d # c /\ ret.frames[d].pc = "reading"
           THEN /\ ret' = [ret EXCEPT !.frames[c] =
                             [pc |-> "returned", op |-> f.op, call |-> f.call,
                              raised |-> f.op # "insert_workflow", result |-> FALSE]]
                /\ UNCHANGED <<workflows, workflows_fts>>
           ELSE /\ workflows' = f.pages.workflows
                /\ workflows_fts' = f.pages.workflows_fts
                /\ ret' = [ret EXCEPT
                             !.frames[c] = [pc |-> "returned", op |-> f.op, call |-> f.call,
                                            raised |-> FALSE, result |-> TRUE],
                             !.history = Append(@, [op |-> f.op, call |-> f.call,
                                                    now |-> f.now])]
    /\ UNCHANGED <<schema, clock>>

\* get_workflow and search_workflows: db.execute(SELECT ...) opens the
\* statement, fetchone or fetchall reads the database file and ends it
Read(c) ==
    /\ ret.op = "serve"
    /\ ret.frames[c].pc \in {"connected", "reading"}
    /\ ret.frames[c].op \in {"get_workflow", "search_workflows"}
    /\ LET f == ret.frames[c]
       IN  IF f.pc = "connected"
           THEN ret' = [ret EXCEPT !.frames[c].pc = "reading"]
           ELSE \E result \in IF f.op = "get_workflow"
                              THEN {SelectById(workflows, f.call)}
                              ELSE SearchResults(workflows, workflows_fts, f.call) :
                   ret' = [ret EXCEPT !.frames[c] =
                              [pc |-> "returned", op |-> f.op, call |-> f.call,
                               raised |-> FALSE, result |-> result]]
    /\ UNCHANGED <<schema, workflows, workflows_fts, clock>>

ConcurrentNext ==
    \/ Startup
    \/ \E c \in 1..MaxCallers :
          \/ \E w \in {W1, W2} : Connect(c, "insert_workflow", w)
          \/ \E i \in {5, 6} : Connect(c, "update_workflow_stats", <<Text("w1"), i, NoInt>>)
          \/ Connect(c, "get_workflow", Text("w1"))
          \/ Connect(c, "search_workflows", PopularCall)
          \/ Execute(c)
          \/ Commit(c)
          \/ Read(c)

ConcurrentSpec == Init /\ [][ConcurrentNext]_vars

-----------------------------------------------------------------------------
(* Concurrent callers *)

RECURSIVE Replay(_, _)
\* the database after the first n writes of the history, run one after another
\* on the empty store
Replay(history, n) ==
    IF n = 0 THEN [workflows |-> <<>>, workflows_fts |-> {}]
    ELSE LET db == Replay(history, n - 1)
             e == history[n]
         IN  IF e.op = "insert_workflow"
             THEN [workflows |-> Append(db.workflows, RowOf(e.call)),
                   workflows_fts |-> Trigger_ai(db.workflows_fts, Len(db.workflows) + 1,
                                                RowOf(e.call))]
             ELSE LET table == UpdateWhereId(db.workflows, e.call[1], e.call[2],
                                             e.call[3], e.now)
                  IN [workflows |-> table,
                      workflows_fts |-> FireUpdateTriggers(db.workflows_fts, table,
                                                           e.call[1], 1)]

\* the store is what the writes that reported success give in commit order,
\* each of them succeeding in that order too
SerialOrder ==
    /\ Replay(ret.history, Len(ret.history)) =
          [workflows |-> workflows, workflows_fts |-> workflows_fts]
    /\ \A n \in 1..Len(ret.history) :
          ret.history[n].op = "insert_workflow" =>
              PrimaryKeyOk(Replay(ret.history, n - 1).workflows, RowOf(ret.history[n].call))

\* a write has returned to caller c and tells success
Succeeded(c, op) ==
    /\ ret.frames[c].pc = "returned"
    /\ ret.frames[c].op = op
    /\ ~ret.frames[c].raised
    /\ ret.frames[c].result = TRUE

\* the record of every insert that reported success is in the store
NoInsertLost ==
    \A c \in DOMAIN ret.frames :
        Succeeded(c, "insert_workflow") =>
            \E i \in 1..Len(workflows) : workflows[i].id = ret.frames[c].call.id

\* what a read returned is what it gives on the store as some commit left it
ReadsCommitted ==
    \A c \in DOMAIN ret.frames :
        ret.frames[c].pc = "returned" =>
            LET f == ret.frames[c]
            IN  /\ f.op = "get_workflow" =>
                      \E n \in 0..Len(ret.history) :
                          f.result = SelectById(Replay(ret.history, n).workflows, f.call)
                /\ f.op = "search_workflows" =>
                      \E n \in 0..Len(ret.history) :
                          f.result \in SearchResults(Replay(ret.history, n).workflows,
                                                     Replay(ret.history, n).workflows_fts,
                                                     f.call)

\* C26: with several callers inside store operations at once and no lock in
\* the application, every write is applied whole or not at all, the store
\* equals a sequential run of the writes that reported success, no insert
\* that reported success is lost, and every read returns committed records.
C26_WritesSerialized ==
    ret.op = "serve" => SerialOrder /\ NoInsertLost /\ ReadsCommitted

\* one caller's insert and update have committed while the other caller's
\* insert of another record failed on the lock and left nothing behind
C26_Witness ==
    /\ ret.op = "serve"
    /\ Len(ret.history) = 2
    /\ ret.history[1].op = "insert_workflow"
    /\ ret.history[2].op = "update_workflow_stats"
    /\ \E c \in DOMAIN ret.frames :
          /\ ret.frames[c].pc = "returned"
          /\ ret.frames[c].op = "insert_workflow"
          /\ ret.frames[c].result = FALSE
          /\ \A i \in 1..Len(workflows) : workflows[i].id # ret.frames[c].call.id

=============================================================================
